---- MODULE Spec2Model ----
(***************************************************************************)
(* Dispatch engine of a single elevator car: the physical controller       *)
(* (elevator_controller.py), the request store (queue_manager.py), the     *)
(* emergency scheduler (emergency_handler.py) and the coordinator          *)
(* (elevator_system.py), with the console harness of test_scenario.py.     *)
(*                                                                         *)
(* None is modelled as 0 for a floor and as <<0, 0>> for an emergency leg. *)
(* A component operation is an operator from a state record to a state     *)
(* record; an action reads the variables into a record, applies the        *)
(* handler's calls in the order of the code and commits the result.        *)
(***************************************************************************)
EXTENDS Integers, Sequences, FiniteSets, TLC

VARIABLES
    num_floors,                     \* ElevatorSystem.num_floors
    current_floor,                  \* ElevatorController.current_floor
    direction,                      \* ElevatorController.direction
    door_state,                     \* ElevatorController.door_state
    door_timer,                     \* ElevatorController.door_timer
    target_floor,                   \* ElevatorController.target_floor (0 = None)
    current_passengers,             \* controller.stats.current_passengers
    internal_requests,              \* QueueManager.internal_requests
    external_up_requests,           \* QueueManager.external_up_requests
    external_down_requests,         \* QueueManager.external_down_requests
    emergency_requests,             \* QueueManager.emergency_requests (a list)
    paused_internal,                \* QueueManager.paused_internal
    paused_external_up,             \* QueueManager.paused_external_up
    paused_external_down,           \* QueueManager.paused_external_down
    store_paused,                   \* QueueManager.is_paused
    request_times,                  \* keys of QueueManager.request_times
    normal_requests_served,         \* queue_manager.stats.normal_requests_served
    emergency_requests_served,      \* queue_manager.stats.emergency_requests_served
    wait_accumulations,             \* number of additions to stats.total_wait_time
    emergency_mode,                 \* EmergencyHandler.emergency_mode
    current_emergency_pickup,       \* ElevatorSystem.current_emergency_pickup
    current_emergency_destination,  \* ElevatorSystem.current_emergency_destination
    is_paused,                      \* ElevatorSystem.is_paused
    last_ret,                       \* what the last call returned (update: arrived)
    scenario,                       \* the harness script being run ("none": no harness)
    script_pc,                      \* submissions of the script already made
    step_count,                     \* the harness's step_count
    last_floor,                     \* the harness's last_floor
    running,                        \* the harness has not left its loop
    arrival_log,                    \* floors of the arrivals of updates called in emergency mode
    store_calls,                    \* calls made on the store directly
    pre_pause,                      \* the live sets pause_normal_requests last saved
    since_pause,                    \* "none", or whether a submission followed that pause
    last_call,                      \* the operation last called, where calls are told apart
    last_value                      \* what the last scheduler query returned

vars == <<num_floors, current_floor, direction, door_state, door_timer, target_floor,
          current_passengers, internal_requests, external_up_requests,
          external_down_requests, emergency_requests, paused_internal,
          paused_external_up, paused_external_down, store_paused, request_times,
          normal_requests_served, emergency_requests_served, wait_accumulations,
          emergency_mode, current_emergency_pickup, current_emergency_destination,
          is_paused, last_ret, scenario, script_pc, step_count, last_floor, running,
          arrival_log,
          store_calls, pre_pause, since_pause, last_call, last_value>>

engineVars == <<num_floors, current_floor, direction, door_state, door_timer, target_floor,
          current_passengers, internal_requests, external_up_requests,
          external_down_requests, emergency_requests, paused_internal,
          paused_external_up, paused_external_down, store_paused, request_times,
          normal_requests_served, emergency_requests_served, wait_accumulations,
          emergency_mode, current_emergency_pickup, current_emergency_destination,
          is_paused>>

harnessVars == <<scenario, script_pc, step_count, last_floor, running, arrival_log>>

storeProbeVars == <<store_calls, pre_pause, since_pause, last_call, last_value>>

(***************************************************************************)
(* Bounds of the model and constants of the program.                       *)
(***************************************************************************)
MaxFloors == 3

MaxNormal == 2

MaxEmergency == 2

MaxRequests == 3

MaxStoreCalls == 4

DefaultNumFloors == 10

max_capacity == 8

door_open_duration == 2

max_steps == 50

NoFloor == 0

NoLeg == <<0, 0>>

\* No scheduler query made yet: no target, no leg kind, no groups.
NoValue == [target |-> NoFloor, is_pickup |-> FALSE, groups |-> <<<<>>, <<>>, <<>>>>]

Directions == {"UP", "DOWN", "IDLE"}

Min(S) == CHOOSE x \in S : \A y \in S : x <= y

Max(S) == CHOOSE x \in S : \A y \in S : x >= y

Abs(x) == IF x < 0 THEN -x ELSE x

\* The element of a one-element set: binds a computed value to a name.
Only(S) == CHOOSE x \in S : TRUE

\* The state of the engine as one record.
State ==
    [num_floors |-> num_floors, current_floor |-> current_floor, direction |-> direction,
     door_state |-> door_state, door_timer |-> door_timer, target_floor |-> target_floor,
     current_passengers |-> current_passengers,
     internal_requests |-> internal_requests,
     external_up_requests |-> external_up_requests,
     external_down_requests |-> external_down_requests,
     emergency_requests |-> emergency_requests,
     paused_internal |-> paused_internal, paused_external_up |-> paused_external_up,
     paused_external_down |-> paused_external_down, store_paused |-> store_paused,
     request_times |-> request_times,
     normal_requests_served |-> normal_requests_served,
     emergency_requests_served |-> emergency_requests_served,
     wait_accumulations |-> wait_accumulations,
     emergency_mode |-> emergency_mode,
     current_emergency_pickup |-> current_emergency_pickup,
     current_emergency_destination |-> current_emergency_destination,
     is_paused |-> is_paused]

Commit(s) ==
    /\ num_floors' = s.num_floors
    /\ current_floor' = s.current_floor
    /\ direction' = s.direction
    /\ door_state' = s.door_state
    /\ door_timer' = s.door_timer
    /\ target_floor' = s.target_floor
    /\ current_passengers' = s.current_passengers
    /\ internal_requests' = s.internal_requests
    /\ external_up_requests' = s.external_up_requests
    /\ external_down_requests' = s.external_down_requests
    /\ emergency_requests' = s.emergency_requests
    /\ paused_internal' = s.paused_internal
    /\ paused_external_up' = s.paused_external_up
    /\ paused_external_down' = s.paused_external_down
    /\ store_paused' = s.store_paused
    /\ request_times' = s.request_times
    /\ normal_requests_served' = s.normal_requests_served
    /\ emergency_requests_served' = s.emergency_requests_served
    /\ wait_accumulations' = s.wait_accumulations
    /\ emergency_mode' = s.emergency_mode
    /\ current_emergency_pickup' = s.current_emergency_pickup
    /\ current_emergency_destination' = s.current_emergency_destination
    /\ is_paused' = s.is_paused

(***************************************************************************)
(* ElevatorStats and ElevatorController.                                   *)
(***************************************************************************)
\* add_passenger without the capacity test.
add_passenger_uncapped(s) == [s EXCEPT !.current_passengers = @ + 1]

add_passenger(s) ==
    IF s.current_passengers < max_capacity
    THEN [s EXCEPT !.current_passengers = @ + 1]
    ELSE s

remove_passenger(s) ==
    IF s.current_passengers > 0
    THEN [s EXCEPT !.current_passengers = @ - 1]
    ELSE s

\* What add_passenger and remove_passenger return.
add_passenger_result(s) == s.current_passengers < max_capacity

remove_passenger_result(s) == s.current_passengers > 0

set_direction(s, d) == [s EXCEPT !.direction = d]

\* open_doors without the test of the door state.
open_doors_from_any_state(s) == [s EXCEPT !.door_state = "OPENING", !.door_timer = 1]

\* open_doors that never opens.
open_doors_ignored(s) == s

open_doors(s) ==
    IF s.door_state = "CLOSED"
    THEN [s EXCEPT !.door_state = "OPENING", !.door_timer = 1]
    ELSE s

close_doors(s) ==
    IF s.door_state = "OPEN"
    THEN [s EXCEPT !.door_state = "CLOSING", !.door_timer = 1]
    ELSE s

\* update_doors holding the door open for one tick only.
update_doors_short_hold(s) ==
    CASE s.door_state = "OPENING" ->
            IF s.door_timer - 1 <= 0
            THEN [s EXCEPT !.door_state = "OPEN", !.door_timer = 1]
            ELSE [s EXCEPT !.door_timer = @ - 1]
      [] s.door_state = "OPEN" ->
            IF s.door_timer - 1 <= 0
            THEN [s EXCEPT !.door_state = "CLOSING", !.door_timer = 1]
            ELSE [s EXCEPT !.door_timer = @ - 1]
      [] s.door_state = "CLOSING" ->
            IF s.door_timer - 1 <= 0
            THEN [s EXCEPT !.door_state = "CLOSED", !.door_timer = @ - 1]
            ELSE [s EXCEPT !.door_timer = @ - 1]
      [] OTHER -> s

\* What update_doors returns: whether the door is in a cycle.
update_doors_result(s) == s.door_state # "CLOSED"

update_doors(s) ==
    CASE s.door_state = "OPENING" ->
            IF s.door_timer - 1 <= 0
            THEN [s EXCEPT !.door_state = "OPEN", !.door_timer = door_open_duration]
            ELSE [s EXCEPT !.door_timer = @ - 1]
      [] s.door_state = "OPEN" ->
            IF s.door_timer - 1 <= 0
            THEN [s EXCEPT !.door_state = "CLOSING", !.door_timer = 1]
            ELSE [s EXCEPT !.door_timer = @ - 1]
      [] s.door_state = "CLOSING" ->
            IF s.door_timer - 1 <= 0
            THEN [s EXCEPT !.door_state = "CLOSED", !.door_timer = @ - 1]
            ELSE [s EXCEPT !.door_timer = @ - 1]
      [] OTHER -> s

\* move_to_floor that sets the target and leaves the direction as it is.
move_to_floor_direction_kept(s, t) ==
    IF t = s.current_floor
    THEN [s EXCEPT !.direction = "IDLE", !.target_floor = NoFloor]
    ELSE IF ~(1 <= t /\ t <= s.num_floors)
    THEN s
    ELSE [s EXCEPT !.target_floor = t]

\* move_to_floor with the direction test lost: the car is always sent up.
move_to_floor_always_up(s, t) ==
    IF t = s.current_floor
    THEN [s EXCEPT !.direction = "IDLE", !.target_floor = NoFloor]
    ELSE IF ~(1 <= t /\ t <= s.num_floors)
    THEN s
    ELSE [s EXCEPT !.target_floor = t, !.direction = "UP"]

move_to_floor(s, t) ==
    IF t = s.current_floor
    THEN [s EXCEPT !.direction = "IDLE", !.target_floor = NoFloor]
    ELSE IF ~(1 <= t /\ t <= s.num_floors)
    THEN s
    ELSE [s EXCEPT !.target_floor = t,
                   !.direction = IF t > s.current_floor THEN "UP" ELSE "DOWN"]

\* step without the door test: the car moves whatever the door does.
controller_step_doors_ignored(s) ==
    IF s.target_floor = NoFloor
    THEN [st |-> update_doors([s EXCEPT !.direction = "IDLE"]), arrived |-> FALSE]
    ELSE IF s.current_floor = s.target_floor
    THEN [st |-> [s EXCEPT !.target_floor = NoFloor], arrived |-> TRUE]
    ELSE [st |-> update_doors([s EXCEPT !.current_floor =
                      CASE s.direction = "UP" -> @ + 1
                        [] s.direction = "DOWN" -> @ - 1
                        [] OTHER -> @]),
          arrived |-> FALSE]

\* ElevatorController.step: the new state and whether the car arrived.
controller_step(s) ==
    IF s.door_state # "CLOSED"
    THEN [st |-> update_doors(s), arrived |-> FALSE]
    ELSE IF s.target_floor = NoFloor
    THEN [st |-> [s EXCEPT !.direction = "IDLE"], arrived |-> FALSE]
    ELSE IF s.current_floor = s.target_floor
    THEN [st |-> [s EXCEPT !.target_floor = NoFloor], arrived |-> TRUE]
    ELSE [st |-> [s EXCEPT !.current_floor =
                      CASE s.direction = "UP" -> @ + 1
                        [] s.direction = "DOWN" -> @ - 1
                        [] OTHER -> @],
          arrived |-> FALSE]

(***************************************************************************)
(* QueueManager.                                                           *)
(***************************************************************************)
\* _get_request_key: "internal_<floor>", "external_up_<floor>",
\* "external_down_<floor>" and "emergency_<to>_<from>"; to is 0 for the first three.
get_request_key(floor, req_type, to) == <<req_type, to, floor>>

InRange(s, f) == 1 <= f /\ f <= s.num_floors

IsMember(x, seq) == \E i \in 1..Len(seq) : seq[i] = x

RECURSIVE RemoveFirst(_, _)
RemoveFirst(seq, x) ==
    IF seq = <<>> THEN <<>>
    ELSE IF Head(seq) = x THEN Tail(seq)
    ELSE <<Head(seq)>> \o RemoveFirst(Tail(seq), x)

add_internal_request_paused(s, floor) ==
    [s EXCEPT !.paused_internal = @ \cup {floor}]

add_internal_request_live(s, floor) ==
    IF floor \notin s.internal_requests
    THEN [s EXCEPT !.internal_requests = @ \cup {floor},
                   !.request_times = @ \cup {get_request_key(floor, "internal", 0)}]
    ELSE s

qm_add_internal_request(s, floor) ==
    IF ~InRange(s, floor)
    THEN [st |-> s, ret |-> FALSE]
    ELSE IF s.store_paused
    THEN [st |-> add_internal_request_paused(s, floor), ret |-> TRUE]
    ELSE [st |-> add_internal_request_live(s, floor), ret |-> TRUE]

add_external_request_paused(s, floor, d) ==
    IF d = "UP"
    THEN [s EXCEPT !.paused_external_up = @ \cup {floor}]
    ELSE [s EXCEPT !.paused_external_down = @ \cup {floor}]

add_external_request_live(s, floor, d) ==
    IF d = "UP"
    THEN IF floor \notin s.external_up_requests
         THEN [s EXCEPT !.external_up_requests = @ \cup {floor},
                        !.request_times = @ \cup {get_request_key(floor, "external_up", 0)}]
         ELSE s
    ELSE IF floor \notin s.external_down_requests
         THEN [s EXCEPT !.external_down_requests = @ \cup {floor},
                        !.request_times = @ \cup {get_request_key(floor, "external_down", 0)}]
         ELSE s

qm_add_external_request(s, floor, d) ==
    IF ~InRange(s, floor)
    THEN [st |-> s, ret |-> FALSE]
    ELSE IF s.store_paused
    THEN [st |-> add_external_request_paused(s, floor, d), ret |-> TRUE]
    ELSE [st |-> add_external_request_live(s, floor, d), ret |-> TRUE]

\* add_emergency_request without the duplicate test.
qm_add_emergency_request_undeduplicated(s, from_floor, to_floor) ==
    IF ~(InRange(s, from_floor) /\ InRange(s, to_floor))
    THEN [st |-> s, ret |-> FALSE]
    ELSE [st |-> [s EXCEPT !.emergency_requests = Append(@, <<from_floor, to_floor>>),
                           !.request_times =
                               @ \cup {get_request_key(from_floor, "emergency", to_floor)}],
          ret |-> TRUE]

\* add_emergency_request that checks the pickup floor only.
qm_add_emergency_request_to_unchecked(s, from_floor, to_floor) ==
    IF ~InRange(s, from_floor)
    THEN [st |-> s, ret |-> FALSE]
    ELSE IF ~IsMember(<<from_floor, to_floor>>, s.emergency_requests)
    THEN [st |-> [s EXCEPT !.emergency_requests = Append(@, <<from_floor, to_floor>>),
                           !.request_times =
                               @ \cup {get_request_key(from_floor, "emergency", to_floor)}],
          ret |-> TRUE]
    ELSE [st |-> s, ret |-> TRUE]

qm_add_emergency_request(s, from_floor, to_floor) ==
    IF ~(InRange(s, from_floor) /\ InRange(s, to_floor))
    THEN [st |-> s, ret |-> FALSE]
    ELSE IF ~IsMember(<<from_floor, to_floor>>, s.emergency_requests)
    THEN [st |-> [s EXCEPT !.emergency_requests = Append(@, <<from_floor, to_floor>>),
                           !.request_times =
                               @ \cup {get_request_key(from_floor, "emergency", to_floor)}],
          ret |-> TRUE]
    ELSE [st |-> s, ret |-> TRUE]

\* pause_normal_requests that clears the live sets without saving them.
pause_normal_requests_unsaved(s) ==
    IF ~s.store_paused
    THEN [s EXCEPT !.paused_internal = {},
                   !.paused_external_up = {},
                   !.paused_external_down = {},
                   !.internal_requests = {},
                   !.external_up_requests = {},
                   !.external_down_requests = {},
                   !.store_paused = TRUE]
    ELSE s

pause_normal_requests(s) ==
    IF ~s.store_paused
    THEN [s EXCEPT !.paused_internal = s.internal_requests,
                   !.paused_external_up = s.external_up_requests,
                   !.paused_external_down = s.external_down_requests,
                   !.internal_requests = {},
                   !.external_up_requests = {},
                   !.external_down_requests = {},
                   !.store_paused = TRUE]
    ELSE s

\* resume_normal_requests that restores the internal requests only.
resume_normal_requests_internal_only(s) ==
    IF s.store_paused
    THEN [s EXCEPT !.internal_requests = s.paused_internal,
                   !.paused_internal = {},
                   !.paused_external_up = {},
                   !.paused_external_down = {},
                   !.store_paused = FALSE]
    ELSE s

resume_normal_requests(s) ==
    IF s.store_paused
    THEN [s EXCEPT !.internal_requests = s.paused_internal,
                   !.external_up_requests = s.paused_external_up,
                   !.external_down_requests = s.paused_external_down,
                   !.paused_internal = {},
                   !.paused_external_up = {},
                   !.paused_external_down = {},
                   !.store_paused = FALSE]
    ELSE s

\* The tail shared by the three remove_* methods: pop the key, count the request.
pop_request_time(s, key, counter) ==
    IF key \in s.request_times
    THEN [st |-> [s EXCEPT !.request_times = @ \ {key},
                           !.wait_accumulations = @ + 1,
                           ![counter] = @ + 1],
          waited |-> TRUE]
    ELSE [st |-> s, waited |-> FALSE]

remove_internal_request(s, floor) ==
    pop_request_time([s EXCEPT !.internal_requests = @ \ {floor}],
                     get_request_key(floor, "internal", 0), "normal_requests_served")

remove_external_request(s, floor, d) ==
    IF d = "UP"
    THEN pop_request_time([s EXCEPT !.external_up_requests = @ \ {floor}],
                          get_request_key(floor, "external_up", 0),
                          "normal_requests_served")
    ELSE pop_request_time([s EXCEPT !.external_down_requests = @ \ {floor}],
                          get_request_key(floor, "external_down", 0),
                          "normal_requests_served")

\* remove_emergency_request counting a served request at every call, whether
\* or not a time was recorded for the pair.
remove_emergency_request_always_counting(s, from_floor, to_floor) ==
    [st |-> [s EXCEPT !.emergency_requests = RemoveFirst(@, <<from_floor, to_floor>>),
                      !.request_times =
                          @ \ {get_request_key(from_floor, "emergency", to_floor)},
                      !.emergency_requests_served = @ + 1,
                      !.wait_accumulations = @ + 1],
     waited |-> TRUE]

remove_emergency_request(s, from_floor, to_floor) ==
    pop_request_time(
        [s EXCEPT !.emergency_requests = RemoveFirst(@, <<from_floor, to_floor>>)],
        get_request_key(from_floor, "emergency", to_floor), "emergency_requests_served")

has_emergency_requests(s) == Len(s.emergency_requests) > 0

has_normal_requests(s) ==
    \/ s.internal_requests # {}
    \/ s.external_up_requests # {}
    \/ s.external_down_requests # {}

has_paused_requests(s) ==
    \/ s.paused_internal # {}
    \/ s.paused_external_up # {}
    \/ s.paused_external_down # {}

(***************************************************************************)
(* EmergencyHandler.                                                       *)
(***************************************************************************)
end_emergency_mode(s) ==
    IF s.emergency_mode /\ ~has_emergency_requests(s)
    THEN resume_normal_requests([s EXCEPT !.emergency_mode = FALSE])
    ELSE s

\* trigger_emergency that also takes the target away, so that the car turns
\* to the emergency at once.
trigger_emergency_diverting(s) ==
    IF ~s.emergency_mode
    THEN pause_normal_requests([s EXCEPT !.emergency_mode = TRUE,
                                         !.target_floor = NoFloor])
    ELSE s

\* trigger_emergency that forgets to pause the store.
trigger_emergency_unpaused(s) ==
    IF ~s.emergency_mode
    THEN [s EXCEPT !.emergency_mode = TRUE]
    ELSE s

trigger_emergency(s) ==
    IF ~s.emergency_mode
    THEN pause_normal_requests([s EXCEPT !.emergency_mode = TRUE])
    ELSE s

is_emergency_mode(s) == s.emergency_mode

\* emergency_group that takes every pickup at the car's floor as ahead.
emergency_group_own_floor_ahead(cf, d, from_floor, to_floor) ==
    CASE d = "UP" -> IF from_floor >= cf THEN "A" ELSE "B"
      [] d = "DOWN" -> IF from_floor <= cf THEN "A" ELSE "B"
      [] OTHER -> IF from_floor >= cf THEN "A" ELSE "B"

\* emergency_group with ahead and behind exchanged for a car going up.
emergency_group_up_swapped(cf, d, from_floor, to_floor) ==
    CASE d = "UP" ->
            (CASE from_floor < cf -> "A"
               [] from_floor > cf -> "B"
               [] from_floor = cf -> IF to_floor > cf THEN "A" ELSE "B"
               [] OTHER -> "C")
      [] d = "DOWN" ->
            (CASE from_floor < cf -> "A"
               [] from_floor > cf -> "B"
               [] from_floor = cf -> IF to_floor < cf THEN "A" ELSE "B"
               [] OTHER -> "C")
      [] OTHER ->
            (CASE from_floor > cf -> "A"
               [] from_floor < cf -> "B"
               [] OTHER -> IF to_floor > cf THEN "A" ELSE "B")

\* The group the loop of sort_emergency_requests appends a request to.
\* The grouping with a request from the car's floor to the car's floor
\* left to the residual group.
emergency_group_residual(cf, d, from_floor, to_floor) ==
    IF from_floor = cf /\ to_floor = cf THEN "C"
    ELSE CASE d = "DOWN" ->
                 IF from_floor < cf \/ (from_floor = cf /\ to_floor < cf)
                 THEN "A" ELSE "B"
           [] OTHER ->
                 IF from_floor > cf \/ (from_floor = cf /\ to_floor > cf)
                 THEN "A" ELSE "B"

emergency_group(cf, d, from_floor, to_floor) ==
    CASE d = "UP" ->
            (CASE from_floor > cf -> "A"
               [] from_floor < cf -> "B"
               [] from_floor = cf -> IF to_floor > cf THEN "A" ELSE "B"
               [] OTHER -> "C")
      [] d = "DOWN" ->
            (CASE from_floor < cf -> "A"
               [] from_floor > cf -> "B"
               [] from_floor = cf -> IF to_floor < cf THEN "A" ELSE "B"
               [] OTHER -> "C")
      [] OTHER ->
            (CASE from_floor > cf -> "A"
               [] from_floor < cf -> "B"
               [] OTHER -> IF to_floor > cf THEN "A" ELSE "B")

RECURSIVE SelectGroup(_, _, _, _)
SelectGroup(seq, cf, d, g) ==
    IF seq = <<>> THEN <<>>
    ELSE (IF emergency_group(cf, d, Head(seq)[1], Head(seq)[2]) = g
          THEN <<Head(seq)>> ELSE <<>>) \o SelectGroup(Tail(seq), cf, d, g)

\* list.sort is stable: x goes behind every element whose key is not larger.
RECURSIVE InsertByKey(_, _)
InsertByKey(sorted, x) ==
    IF sorted = <<>> THEN <<x>>
    ELSE IF Head(sorted)[1] <= x[1]
    THEN <<Head(sorted)>> \o InsertByKey(Tail(sorted), x)
    ELSE <<x>> \o sorted

RECURSIVE StableSort(_)
StableSort(keyed) ==
    IF keyed = <<>> THEN <<>>
    ELSE InsertByKey(StableSort(SubSeq(keyed, 1, Len(keyed) - 1)), keyed[Len(keyed)])

\* The sort keys; reverse=True keeps equal elements in their order, as sorting by
\* the negated key does.
group_a_key(cf, d, r) ==
    CASE d = "UP" -> r[1]
      [] d = "DOWN" -> 0 - r[1]
      [] OTHER -> Abs(r[1] - cf)

group_b_key(cf, d, r) ==
    CASE d = "UP" -> 0 - r[1]
      [] d = "DOWN" -> r[1]
      [] OTHER -> Abs(r[1] - cf)

group_c_key(cf, d, r) == Abs(r[2] - cf)

SortGroupA(cf, d, g) ==
    LET sorted == StableSort([i \in 1..Len(g) |-> <<group_a_key(cf, d, g[i]), g[i]>>])
    IN  [i \in 1..Len(g) |-> sorted[i][2]]

SortGroupB(cf, d, g) ==
    LET sorted == StableSort([i \in 1..Len(g) |-> <<group_b_key(cf, d, g[i]), g[i]>>])
    IN  [i \in 1..Len(g) |-> sorted[i][2]]

SortGroupC(cf, d, g) ==
    LET sorted == StableSort([i \in 1..Len(g) |-> <<group_c_key(cf, d, g[i]), g[i]>>])
    IN  [i \in 1..Len(g) |-> sorted[i][2]]

sort_emergency_requests(requests, cf, d) ==
    Only({[group_a |-> SortGroupA(cf, d, SelectGroup(queue, cf, d, "A")),
           group_b |-> SortGroupB(cf, d, SelectGroup(queue, cf, d, "B")),
           group_c |-> SortGroupC(cf, d, SelectGroup(queue, cf, d, "C"))] :
             queue \in {requests}})

\* The choice with Group B looked at before Group A.
first_emergency_reverse_first(groups) ==
    IF groups.group_b # <<>> THEN groups.group_b[1]
    ELSE IF groups.group_a # <<>> THEN groups.group_a[1]
    ELSE IF groups.group_c # <<>> THEN groups.group_c[1]
    ELSE NoLeg

\* The first request of the first non-empty group, A before B before C.
first_emergency(groups) ==
    IF groups.group_a # <<>> THEN groups.group_a[1]
    ELSE IF groups.group_b # <<>> THEN groups.group_b[1]
    ELSE IF groups.group_c # <<>> THEN groups.group_c[1]
    ELSE NoLeg

\* The request the scheduler puts first, for the queue as it stands.
first_of_queue(requests, cf, d) ==
    Only({first_emergency(groups) :
             groups \in {sort_emergency_requests(requests, cf, d)}})

get_next_emergency_target(s, cf, d) ==
    IF ~has_emergency_requests(s)
    THEN [target |-> NoFloor, is_pickup |-> FALSE]
    ELSE Only({IF first = NoLeg
               THEN [target |-> NoFloor, is_pickup |-> FALSE]
               ELSE IF cf = first[1]
               THEN [target |-> first[2], is_pickup |-> FALSE]
               ELSE [target |-> first[1], is_pickup |-> TRUE] :
                  first \in {first_of_queue(s.emergency_requests, cf, d)}})

\* complete_emergency_request that never ends emergency mode.
complete_emergency_request_mode_kept(s, from_floor, to_floor) ==
    remove_emergency_request(s, from_floor, to_floor).st

\* complete_emergency_request that hands the paused requests back after every
\* drop-off and never leaves emergency mode.
complete_emergency_request_resumes(s, from_floor, to_floor) ==
    resume_normal_requests(remove_emergency_request(s, from_floor, to_floor).st)

complete_emergency_request(s, from_floor, to_floor) ==
    LET removed == remove_emergency_request(s, from_floor, to_floor).st
    IN  IF ~has_emergency_requests(removed) THEN end_emergency_mode(removed) ELSE removed

(***************************************************************************)
(* ElevatorSystem.                                                         *)
(***************************************************************************)
\* min(floors, key=lambda x: abs(x - current_floor)): the first floor of least
\* distance in the iteration order of a set, which the language leaves open.
Closest(floors, cf) ==
    {f \in floors : \A g \in floors : Abs(f - cf) <= Abs(g - cf)}

\* The idle search over the up calls first, the down calls only when there is
\* no up call.
ClosestExternal_up_first(up, down, cf) ==
    IF up # {} THEN Closest(up, cf) ELSE Closest(down, cf)

\* The same over list(external_up) + list(external_down): a floor of the first list
\* comes before every floor of the second.
ClosestExternal(up, down, cf) ==
    LET best == Closest(up \cup down, cf)
    IN  IF best \cap up # {} THEN best \cap up ELSE best

\* Going up with the reversal taken to the lowest internal floor.
internal_target_up_lowest(cf, internal) ==
    IF {f \in internal : f > cf} # {}
    THEN {Min({f \in internal : f > cf})}
    ELSE {Min(internal)}

\* _get_next_normal_target, internal requests pending, going up.
internal_target_up(cf, internal) ==
    IF {f \in internal : f > cf} # {}
    THEN {Min({f \in internal : f > cf})}
    ELSE {Max(internal)}

\* _get_next_normal_target, internal requests pending, going down.
internal_target_down(cf, internal) ==
    IF {f \in internal : f < cf} # {}
    THEN {Max({f \in internal : f < cf})}
    ELSE {Min(internal)}

\* Going up with the reversal taken to the lowest down call.
external_target_up_lowest(cf, internal, up, down) ==
    IF {f \in up : f > cf} # {} THEN {Min({f \in up : f > cf})}
    ELSE IF down # {} THEN {Min(down)}
    ELSE IF internal # {} THEN {Max(internal)}
    ELSE {NoFloor}

\* _get_next_normal_target, the external requests, going up.
external_target_up(cf, internal, up, down) ==
    IF {f \in up : f > cf} # {} THEN {Min({f \in up : f > cf})}
    ELSE IF down # {} THEN {Max(down)}
    ELSE IF internal # {} THEN {Max(internal)}
    ELSE {NoFloor}

\* Going down with the reversal taken to the highest up call.
external_target_down_highest(cf, internal, up, down) ==
    IF {f \in down : f < cf} # {} THEN {Max({f \in down : f < cf})}
    ELSE IF up # {} THEN {Max(up)}
    ELSE IF internal # {} THEN {Min(internal)}
    ELSE {NoFloor}

\* _get_next_normal_target, the external requests, going down.
external_target_down(cf, internal, up, down) ==
    IF {f \in down : f < cf} # {} THEN {Max({f \in down : f < cf})}
    ELSE IF up # {} THEN {Min(up)}
    ELSE IF internal # {} THEN {Min(internal)}
    ELSE {NoFloor}

\* _get_next_normal_target looking at the calls before the internal requests.
get_next_normal_target_calls_first(cf, d, internal, up, down) ==
    IF internal # {} /\ up \cup down = {}
    THEN CASE d = "UP" -> internal_target_up(cf, internal)
           [] d = "DOWN" -> internal_target_down(cf, internal)
           [] OTHER -> Closest(internal, cf)
    ELSE CASE d = "UP" -> external_target_up(cf, internal, up, down)
           [] d = "DOWN" -> external_target_down(cf, internal, up, down)
           [] OTHER ->
                 IF up \cup down # {} THEN ClosestExternal(up, down, cf)
                 ELSE {NoFloor}

\* _get_next_normal_target: the floors it can return (NoFloor for None).
get_next_normal_target(cf, d, internal, up, down) ==
    IF internal # {}
    THEN CASE d = "UP" -> internal_target_up(cf, internal)
           [] d = "DOWN" -> internal_target_down(cf, internal)
           [] OTHER -> Closest(internal, cf)
    ELSE CASE d = "UP" -> external_target_up(cf, internal, up, down)
           [] d = "DOWN" -> external_target_down(cf, internal, up, down)
           [] OTHER ->
                 IF up \cup down # {} THEN ClosestExternal(up, down, cf)
                 ELSE {NoFloor}

\* get_next_target recording the destination leg when the scheduler names a
\* drop-off leg for a car that stands at the pickup floor.
get_next_target_recording_drop_off(s) ==
    LET cf == s.current_floor
        d == s.direction
        dest == s.current_emergency_destination
        pick == s.current_emergency_pickup
    IN  IF dest # NoLeg /\ cf # dest[2]
        THEN {[st |-> s, target |-> dest[2]]}
        ELSE IF pick # NoLeg /\ cf # pick[1]
        THEN {[st |-> s, target |-> pick[1]]}
        ELSE UNION {
          IF is_emergency_mode(s) /\ has_emergency_requests(s) /\ et.target # NoFloor
          THEN {[st |-> IF et.is_pickup
                        THEN [s EXCEPT !.current_emergency_pickup =
                                  first_of_queue(s.emergency_requests, cf, d)]
                        ELSE [s EXCEPT !.current_emergency_destination =
                                  first_of_queue(s.emergency_requests, cf, d)],
                 target |-> et.target]}
          ELSE IF ~is_emergency_mode(s)
          THEN {[st |-> s, target |-> t] :
                   t \in get_next_normal_target(cf, d, s.internal_requests,
                                                s.external_up_requests,
                                                s.external_down_requests)}
          ELSE {[st |-> s, target |-> NoFloor]} :
             et \in {get_next_emergency_target(s, cf, d)}}

\* get_next_target: the (state, target) pairs it can end with; it records the
\* in-progress pickup when the scheduler names a pickup leg.
get_next_target(s) ==
    LET cf == s.current_floor
        d == s.direction
        dest == s.current_emergency_destination
        pick == s.current_emergency_pickup
    IN  IF dest # NoLeg /\ cf # dest[2]
        THEN {[st |-> s, target |-> dest[2]]}
        ELSE IF pick # NoLeg /\ cf # pick[1]
        THEN {[st |-> s, target |-> pick[1]]}
        ELSE UNION {
          IF is_emergency_mode(s) /\ has_emergency_requests(s) /\ et.target # NoFloor
          THEN {[st |-> IF et.is_pickup
                        THEN [s EXCEPT !.current_emergency_pickup =
                                  first_of_queue(s.emergency_requests, cf, d)]
                        ELSE s,
                 target |-> et.target]}
          ELSE IF ~is_emergency_mode(s)
          THEN {[st |-> s, target |-> t] :
                   t \in get_next_normal_target(cf, d, s.internal_requests,
                                                s.external_up_requests,
                                                s.external_down_requests)}
          ELSE {[st |-> s, target |-> NoFloor]} :
             et \in {get_next_emergency_target(s, cf, d)}}

\* The pickup that records the destination leg and keeps the pickup leg.
serve_emergency_pickup_kept(s) ==
    LET pick == s.current_emergency_pickup
    IN  IF pick # NoLeg /\ s.current_floor = pick[1]
        THEN [st |-> add_passenger([s EXCEPT !.current_emergency_destination = pick]),
              open |-> TRUE]
        ELSE [st |-> s, open |-> FALSE]

\* step, the emergency block of an arrival: pickup, drop-off, doors.
serve_emergency_pickup(s) ==
    LET pick == s.current_emergency_pickup
    IN  IF pick # NoLeg /\ s.current_floor = pick[1]
        THEN [st |-> add_passenger([s EXCEPT !.current_emergency_destination = pick,
                                             !.current_emergency_pickup = NoLeg]),
              open |-> TRUE]
        ELSE [st |-> s, open |-> FALSE]

serve_emergency_destination(s) ==
    LET dest == s.current_emergency_destination
    IN  IF dest # NoLeg /\ s.current_floor = dest[2]
        THEN [st |-> remove_passenger(
                       [complete_emergency_request(
                            remove_emergency_request(s, dest[1], dest[2]).st,
                            dest[1], dest[2])
                        EXCEPT !.current_emergency_destination = NoLeg]),
              open |-> TRUE]
        ELSE [st |-> s, open |-> FALSE]

\* The emergency block opening the doors at every arrival.
serve_emergency_always_opens(s) ==
    IF is_emergency_mode(s)
    THEN open_doors(serve_emergency_destination(serve_emergency_pickup(s).st).st)
    ELSE s

serve_emergency(s) ==
    IF is_emergency_mode(s)
    THEN LET p == serve_emergency_pickup(s)
             q == serve_emergency_destination(p.st)
         IN  IF p.open \/ q.open THEN open_doors(q.st) ELSE q.st
    ELSE s

\* step, the normal block of an arrival.
serve_internal(s) ==
    IF s.current_floor \in s.internal_requests
    THEN [st |-> remove_passenger(remove_internal_request(s, s.current_floor).st),
          open |-> TRUE]
    ELSE [st |-> s, open |-> FALSE]

serve_external_up(s) ==
    IF s.current_floor \in s.external_up_requests
    THEN [st |-> add_passenger(remove_external_request(s, s.current_floor, "UP").st),
          open |-> TRUE]
    ELSE [st |-> s, open |-> FALSE]

serve_external_down(s) ==
    IF s.current_floor \in s.external_down_requests
    THEN [st |-> add_passenger(remove_external_request(s, s.current_floor, "DOWN").st),
          open |-> TRUE]
    ELSE [st |-> s, open |-> FALSE]

serve_normal(s) ==
    IF ~is_emergency_mode(s)
    THEN LET i == serve_internal(s)
             u == serve_external_up(i.st)
             w == serve_external_down(u.st)
         IN  IF i.open \/ u.open \/ w.open THEN open_doors(w.st) ELSE w.st
    ELSE s

\* step, the end of an arrival: the next target, or Idle.
dispatch_next(s) ==
    {IF r.target # NoFloor THEN move_to_floor(r.st, r.target)
                           ELSE set_direction(r.st, "IDLE") : r \in get_next_target(s)}

\* step with the normal block of an arrival evaluated before the emergency
\* block.
system_step_normal_first(s) ==
    UNION {IF c.arrived
           THEN {[st |-> n, arrived |-> TRUE] :
                    n \in UNION {dispatch_next(served) :
                                    served \in {serve_emergency(serve_normal(c.st))}}}
           ELSE {[st |-> c.st, arrived |-> FALSE]} :
              c \in {controller_step(s)}}

\* ElevatorSystem.step, called unpaused.
system_step(s) ==
    UNION {IF c.arrived
           THEN {[st |-> n, arrived |-> TRUE] :
                    n \in UNION {dispatch_next(served) :
                                    served \in {serve_normal(serve_emergency(c.st))}}}
           ELSE {[st |-> c.st, arrived |-> FALSE]} :
              c \in {controller_step(s)}}

\* update, the part before step: find a target when none is set.
find_target(s) ==
    IF s.target_floor = NoFloor
    THEN {IF r.target # NoFloor THEN move_to_floor(r.st, r.target) ELSE r.st :
             r \in get_next_target(s)}
    ELSE {s}

\* update without the pause test.
update_while_paused(s) == UNION {system_step(f) : f \in find_target(s)}

update(s) ==
    IF s.is_paused
    THEN {[st |-> s, arrived |-> FALSE]}
    ELSE UNION {system_step(f) : f \in find_target(s)}

\* add_internal_request without the emergency-mode test.
add_internal_request_in_any_mode(s, floor) == qm_add_internal_request(s, floor)

add_internal_request(s, floor) ==
    IF is_emergency_mode(s)
    THEN [st |-> s, ret |-> FALSE]
    ELSE qm_add_internal_request(s, floor)

\* add_external_request without the emergency-mode test.
add_external_request_in_any_mode(s, floor, d) == qm_add_external_request(s, floor, d)

add_external_request(s, floor, d) ==
    IF is_emergency_mode(s)
    THEN [st |-> s, ret |-> FALSE]
    ELSE qm_add_external_request(s, floor, d)

\* add_emergency_request that drops the leg in progress and the target, so
\* that the next tick asks the scheduler again.
add_emergency_request_rescheduling(s, from_floor, to_floor) ==
    LET r == qm_add_emergency_request(s, from_floor, to_floor)
    IN  IF r.ret
        THEN [st |-> [trigger_emergency(r.st) EXCEPT !.target_floor = NoFloor,
                                                     !.current_emergency_pickup = NoLeg],
              ret |-> TRUE]
        ELSE r

add_emergency_request(s, from_floor, to_floor) ==
    LET r == qm_add_emergency_request(s, from_floor, to_floor)
    IN  IF r.ret THEN [st |-> trigger_emergency(r.st), ret |-> TRUE] ELSE r

pause(s) == [s EXCEPT !.is_paused = TRUE]

resume(s) == [s EXCEPT !.is_paused = FALSE]

\* toggle_pause: the new state and the new pause flag, which it returns.
toggle_pause(s) == [st |-> [s EXCEPT !.is_paused = ~@], ret |-> ~s.is_paused]

(***************************************************************************)
(* The engine driven through its public operations.                        *)
(***************************************************************************)
InitEngine(n, floor, d) ==
    /\ num_floors = n
    /\ current_floor = floor
    /\ direction = d
    /\ door_state = "CLOSED"
    /\ door_timer = 0
    /\ target_floor = NoFloor
    /\ current_passengers = 0
    /\ internal_requests = {}
    /\ external_up_requests = {}
    /\ external_down_requests = {}
    /\ emergency_requests = <<>>
    /\ paused_internal = {}
    /\ paused_external_up = {}
    /\ paused_external_down = {}
    /\ store_paused = FALSE
    /\ request_times = {}
    /\ normal_requests_served = 0
    /\ emergency_requests_served = 0
    /\ wait_accumulations = 0
    /\ emergency_mode = FALSE
    /\ current_emergency_pickup = NoLeg
    /\ current_emergency_destination = NoLeg
    /\ is_paused = FALSE
    /\ last_ret = FALSE

NoHarness ==
    /\ scenario = "none"
    /\ script_pc = 0
    /\ step_count = 0
    /\ last_floor = NoFloor
    /\ running = FALSE
    /\ arrival_log = <<>>

NoStoreProbe ==
    /\ store_calls = 0
    /\ pre_pause = <<{}, {}, {}>>
    /\ since_pause = "none"
    /\ last_call = "none"
    /\ last_value = NoValue

Init ==
    /\ \E floor \in 1..MaxFloors, d \in Directions : InitEngine(MaxFloors, floor, d)
    /\ NoHarness
    /\ NoStoreProbe

\* Normal and emergency requests accepted so far: the ones served and the ones held.
NormalIssued(s) ==
    s.normal_requests_served
    + Cardinality(s.internal_requests) + Cardinality(s.external_up_requests)
    + Cardinality(s.external_down_requests)
    + Cardinality(s.paused_internal) + Cardinality(s.paused_external_up)
    + Cardinality(s.paused_external_down)

EmergencyIssued(s) == s.emergency_requests_served + Len(s.emergency_requests)

WithinBudget(s) ==
    /\ NormalIssued(s) <= MaxNormal
    /\ EmergencyIssued(s) <= MaxEmergency
    /\ NormalIssued(s) + EmergencyIssued(s) <= MaxRequests

Returned(ret) == last_ret' = ret

AddInternalRequest(floor) ==
    LET r == add_internal_request(State, floor)
    IN  /\ WithinBudget(r.st)
        /\ Commit(r.st)
        /\ Returned(r.ret)
        /\ UNCHANGED <<harnessVars, storeProbeVars>>

AddExternalRequest(floor, d) ==
    LET r == add_external_request(State, floor, d)
    IN  /\ WithinBudget(r.st)
        /\ Commit(r.st)
        /\ Returned(r.ret)
        /\ UNCHANGED <<harnessVars, storeProbeVars>>

AddEmergencyRequest(from_floor, to_floor) ==
    LET r == add_emergency_request(State, from_floor, to_floor)
    IN  /\ WithinBudget(r.st)
        /\ Commit(r.st)
        /\ Returned(r.ret)
        /\ UNCHANGED <<harnessVars, storeProbeVars>>

Update ==
    /\ \E system \in {State} : \E r \in update(system) :
          /\ Commit(r.st)
          /\ Returned(r.arrived)
    /\ UNCHANGED <<harnessVars, storeProbeVars>>

Pause ==
    /\ ~is_paused
    /\ Commit(pause(State))
    /\ Returned(FALSE)
    /\ UNCHANGED <<harnessVars, storeProbeVars>>

Resume ==
    /\ is_paused
    /\ Commit(resume(State))
    /\ Returned(FALSE)
    /\ UNCHANGED <<harnessVars, storeProbeVars>>

\* Floors a caller may pass: one below and one above the range as well.
FloorInputs == 0..(num_floors + 1)

Next ==
    \/ \E floor \in FloorInputs : AddInternalRequest(floor)
    \/ \E floor \in FloorInputs, d \in {"UP", "DOWN"} : AddExternalRequest(floor, d)
    \/ \E from_floor \in FloorInputs, to_floor \in FloorInputs :
          AddEmergencyRequest(from_floor, to_floor)
    \/ Update

Spec == Init /\ [][Next]_vars

\* The same with the host pausing and resuming the engine.
PausableNext ==
    \/ \E floor \in FloorInputs : AddInternalRequest(floor)
    \/ \E floor \in FloorInputs, d \in {"UP", "DOWN"} : AddExternalRequest(floor, d)
    \/ \E from_floor \in FloorInputs, to_floor \in FloorInputs :
          AddEmergencyRequest(from_floor, to_floor)
    \/ Update
    \/ Pause
    \/ Resume

PausableSpec == Init /\ [][PausableNext]_vars

(***************************************************************************)
(* The console harness: a script of submissions, then the update loop.     *)
(***************************************************************************)
Script(sc) ==
    CASE sc = "basic" ->
            <<[op |-> "external", a |-> 4, b |-> "UP"]>>
      [] sc = "preempt" ->
            <<[op |-> "external", a |-> 4, b |-> "UP"],
              [op |-> "external", a |-> 6, b |-> "DOWN"],
              [op |-> "emergency", a |-> 4, b |-> 10],
              [op |-> "emergency", a |-> 2, b |-> 1]>>
      [] sc = "section7" ->
            <<[op |-> "external", a |-> 4, b |-> "UP"],
              [op |-> "external", a |-> 6, b |-> "DOWN"],
              [op |-> "external", a |-> 7, b |-> "UP"],
              [op |-> "emergency", a |-> 4, b |-> 10],
              [op |-> "emergency", a |-> 2, b |-> 1]>>
      [] OTHER -> <<>>

Scenarios == {"basic", "preempt", "section7"}

ScenarioInit ==
    /\ InitEngine(DefaultNumFloors, 3, "UP")
    /\ scenario \in Scenarios
    /\ script_pc = 0
    /\ step_count = 0
    /\ last_floor = 3
    /\ running = TRUE
    /\ arrival_log = <<>>
    /\ NoStoreProbe

ScriptCall(s, c) ==
    IF c.op = "external" THEN add_external_request(s, c.a, c.b)
    ELSE add_emergency_request(s, c.a, c.b)

ScriptStep ==
    /\ running
    /\ script_pc < Len(Script(scenario))
    /\ LET r == ScriptCall(State, Script(scenario)[script_pc + 1])
       IN  /\ Commit(r.st)
           /\ Returned(r.ret)
    /\ script_pc' = script_pc + 1
    /\ UNCHANGED <<scenario, step_count, last_floor, running, arrival_log, storeProbeVars>>

\* The two breaks of the loop, evaluated on the state update() left.
HarnessSuccess(s, arrived) ==
    /\ arrived
    /\ ~s.emergency_mode
    /\ ~has_normal_requests(s)
    /\ s.direction = "IDLE"

HarnessStuck(s, count) ==
    /\ s.current_floor = last_floor
    /\ count > 5
    /\ s.target_floor = NoFloor
    /\ ~has_normal_requests(s)
    /\ ~has_emergency_requests(s)

HarnessTick ==
    /\ running
    /\ script_pc = Len(Script(scenario))
    /\ step_count < max_steps
    /\ \E system \in {State} : \E r \in update(system) :
          /\ Commit(r.st)
          /\ Returned(r.arrived)
          /\ step_count' = step_count + 1
          /\ arrival_log' = IF r.arrived /\ emergency_mode
                            THEN Append(arrival_log, r.st.current_floor)
                            ELSE arrival_log
          /\ running' = ~(HarnessSuccess(r.st, r.arrived)
                          \/ HarnessStuck(r.st, step_count + 1))
          /\ last_floor' = r.st.current_floor
    /\ UNCHANGED <<scenario, script_pc, storeProbeVars>>

ScenarioNext ==
    \/ ScriptStep
    \/ HarnessTick

ScenarioSpec == ScenarioInit /\ [][ScenarioNext]_vars /\ WF_vars(ScenarioNext)

(***************************************************************************)
(* The request store called directly, any method in any order.             *)
(***************************************************************************)
StoreInit ==
    /\ InitEngine(MaxFloors, 1, "IDLE")
    /\ NoHarness
    /\ NoStoreProbe

LiveSets(s) == <<s.internal_requests, s.external_up_requests, s.external_down_requests>>

PausedSets(s) == <<s.paused_internal, s.paused_external_up, s.paused_external_down>>

StoreCall(s, ret) ==
    /\ store_calls < MaxStoreCalls
    /\ store_calls' = store_calls + 1
    /\ last_call' = last_call
    /\ last_value' = last_value
    /\ Commit(s)
    /\ Returned(ret)
    /\ UNCHANGED harnessVars

\* A submission after the snapshot makes the pause "dirty"; any call after a
\* resume ends the "round_trip" that resume completed.
Submitted ==
    /\ since_pause' = IF since_pause \in {"clean", "dirty"} THEN "dirty" ELSE "none"
    /\ pre_pause' = pre_pause

Removed ==
    /\ since_pause' = IF since_pause = "round_trip" THEN "none" ELSE since_pause
    /\ pre_pause' = pre_pause

StoreAddInternal(floor) ==
    LET r == qm_add_internal_request(State, floor)
    IN  StoreCall(r.st, r.ret) /\ Submitted

StoreAddExternal(floor, d) ==
    LET r == qm_add_external_request(State, floor, d)
    IN  StoreCall(r.st, r.ret) /\ Submitted

StoreAddEmergency(from_floor, to_floor) ==
    LET r == qm_add_emergency_request(State, from_floor, to_floor)
    IN  StoreCall(r.st, r.ret) /\ Submitted

StoreRemoveInternal(floor) ==
    LET r == remove_internal_request(State, floor)
    IN  StoreCall(r.st, r.waited) /\ Removed

StoreRemoveExternal(floor, d) ==
    LET r == remove_external_request(State, floor, d)
    IN  StoreCall(r.st, r.waited) /\ Removed

StoreRemoveEmergency(from_floor, to_floor) ==
    LET r == remove_emergency_request(State, from_floor, to_floor)
    IN  StoreCall(r.st, r.waited) /\ Removed

StorePause ==
    /\ StoreCall(pause_normal_requests(State), FALSE)
    /\ pre_pause' = IF store_paused THEN pre_pause ELSE LiveSets(State)
    /\ since_pause' = IF store_paused THEN since_pause ELSE "clean"

StoreResume ==
    /\ StoreCall(resume_normal_requests(State), FALSE)
    /\ pre_pause' = pre_pause
    /\ since_pause' = IF since_pause = "clean" THEN "round_trip" ELSE "none"

StoreNext ==
    \/ \E floor \in FloorInputs : StoreAddInternal(floor)
    \/ \E floor \in FloorInputs, d \in {"UP", "DOWN"} : StoreAddExternal(floor, d)
    \/ \E from_floor \in FloorInputs, to_floor \in FloorInputs :
          StoreAddEmergency(from_floor, to_floor)
    \/ \E floor \in FloorInputs : StoreRemoveInternal(floor)
    \/ \E floor \in FloorInputs, d \in {"UP", "DOWN"} : StoreRemoveExternal(floor, d)
    \/ \E from_floor \in FloorInputs, to_floor \in FloorInputs :
          StoreRemoveEmergency(from_floor, to_floor)
    \/ StorePause
    \/ StoreResume

StoreSpec == StoreInit /\ [][StoreNext]_vars

(***************************************************************************)
(* The engine with update() called again and again and never paused.       *)
(***************************************************************************)
\* Emergency requests only.
EmergencyNext ==
    \/ \E from_floor \in FloorInputs, to_floor \in FloorInputs :
          AddEmergencyRequest(from_floor, to_floor)
    \/ Update

EmergencySpec == Init /\ [][EmergencyNext]_vars /\ WF_vars(Update)

\* Normal requests only.
NormalNext ==
    \/ \E floor \in FloorInputs : AddInternalRequest(floor)
    \/ \E floor \in FloorInputs, d \in {"UP", "DOWN"} : AddExternalRequest(floor, d)
    \/ Update

NormalSpec == Init /\ [][NormalNext]_vars /\ WF_vars(Update)

(***************************************************************************)
(* The engine with each call recorded in last_call, the host pausing and   *)
(* resuming it at will.                                                    *)
(***************************************************************************)
MaxCallRequests == 2

CallBudget(s) == NormalIssued(s) + EmergencyIssued(s) <= MaxCallRequests

Call(name, s, ret) ==
    /\ Commit(s)
    /\ Returned(ret)
    /\ last_call' = name
    /\ UNCHANGED <<harnessVars, store_calls, pre_pause, since_pause, last_value>>

CallAddInternalRequest(floor) ==
    \E r \in {add_internal_request(State, floor)} :
        CallBudget(r.st) /\ Call("add_internal_request", r.st, r.ret)

CallAddExternalRequest(floor, d) ==
    \E r \in {add_external_request(State, floor, d)} :
        CallBudget(r.st) /\ Call("add_external_request", r.st, r.ret)

CallAddEmergencyRequest(from_floor, to_floor) ==
    \E r \in {add_emergency_request(State, from_floor, to_floor)} :
        CallBudget(r.st) /\ Call("add_emergency_request", r.st, r.ret)

CallUpdate ==
    \E system \in {State} : \E r \in update(system) : Call("update", r.st, r.arrived)

CallPause == Call("pause", pause(State), FALSE)

CallResume == Call("resume", resume(State), FALSE)

CallTogglePause ==
    \E r \in {toggle_pause(State)} : Call("toggle_pause", r.st, r.ret)

CallNext ==
    \/ \E floor \in FloorInputs : CallAddInternalRequest(floor)
    \/ \E floor \in FloorInputs, d \in {"UP", "DOWN"} : CallAddExternalRequest(floor, d)
    \/ \E from_floor \in FloorInputs, to_floor \in FloorInputs :
          CallAddEmergencyRequest(from_floor, to_floor)
    \/ CallUpdate
    \/ CallPause
    \/ CallResume
    \/ CallTogglePause

CallSpec == Init /\ [][CallNext]_vars

(***************************************************************************)
(* The controller called directly, any method in any order.                *)
(***************************************************************************)
ControllerAddPassenger ==
    Call("add_passenger", add_passenger(State), add_passenger_result(State))

ControllerRemovePassenger ==
    Call("remove_passenger", remove_passenger(State), remove_passenger_result(State))

\* set_direction as the coordinator calls it, with Idle: a direction set against
\* the target would let step carry the car out of the shaft.
ControllerSetIdle == Call("set_direction", set_direction(State, "IDLE"), FALSE)

ControllerOpenDoors == Call("open_doors", open_doors(State), FALSE)

ControllerCloseDoors == Call("close_doors", close_doors(State), FALSE)

ControllerUpdateDoors ==
    Call("update_doors", update_doors(State), update_doors_result(State))

ControllerMoveToFloor(floor) == Call("move_to_floor", move_to_floor(State, floor), FALSE)

ControllerStep ==
    \E r \in {controller_step(State)} : Call("step", r.st, r.arrived)

ControllerNext ==
    \/ ControllerAddPassenger
    \/ ControllerRemovePassenger
    \/ ControllerSetIdle
    \/ ControllerOpenDoors
    \/ ControllerCloseDoors
    \/ ControllerUpdateDoors
    \/ \E floor \in FloorInputs : ControllerMoveToFloor(floor)
    \/ ControllerStep

ControllerSpec == Init /\ [][ControllerNext]_vars

(***************************************************************************)
(* The engine picking passengers up, with passengers also boarding and     *)
(* leaving through the controller's add_passenger and remove_passenger.    *)
(***************************************************************************)
LoadNext ==
    \/ \E floor \in 1..MaxFloors, d \in {"UP", "DOWN"} : CallAddExternalRequest(floor, d)
    \/ \E from_floor \in 1..MaxFloors, to_floor \in 1..MaxFloors :
          CallAddEmergencyRequest(from_floor, to_floor)
    \/ CallUpdate
    \/ ControllerAddPassenger
    \/ ControllerRemovePassenger

LoadSpec == Init /\ [][LoadNext]_vars

(***************************************************************************)
(* An idle car in a building of the default height, normal requests only.  *)
(***************************************************************************)
IdleInit ==
    /\ \E floor \in 1..DefaultNumFloors : InitEngine(DefaultNumFloors, floor, "IDLE")
    /\ NoHarness
    /\ NoStoreProbe

IdleNext ==
    \/ \E floor \in 1..DefaultNumFloors : CallAddInternalRequest(floor)
    \/ \E floor \in 1..DefaultNumFloors, d \in {"UP", "DOWN"} :
          CallAddExternalRequest(floor, d)
    \/ CallUpdate

IdleSpec == IdleInit /\ [][IdleNext]_vars

(***************************************************************************)
(* A running engine: submissions and update() ticks, never paused.  The   *)
(* tick loop keeps calling update(); the fairness asks for it only while   *)
(* the door is in a cycle.                                                 *)
(***************************************************************************)
TickNext ==
    \/ \E floor \in FloorInputs : CallAddInternalRequest(floor)
    \/ \E floor \in FloorInputs, d \in {"UP", "DOWN"} : CallAddExternalRequest(floor, d)
    \/ \E from_floor \in FloorInputs, to_floor \in FloorInputs :
          CallAddEmergencyRequest(from_floor, to_floor)
    \/ CallUpdate

TickSpec == Init /\ [][TickNext]_vars /\ WF_vars(door_state # "CLOSED" /\ CallUpdate)

(***************************************************************************)
(* The target selection queried on its own: a system as constructed, with  *)
(* any start floor and direction, after any normal submissions or after    *)
(* any emergency submissions, and then the queries in any order.           *)
(***************************************************************************)
\* ElevatorSystem(n, floor, d) as a record.
constructed(n, floor, d) ==
    [num_floors |-> n, current_floor |-> floor, direction |-> d,
     door_state |-> "CLOSED", door_timer |-> 0, target_floor |-> NoFloor,
     current_passengers |-> 0,
     internal_requests |-> {}, external_up_requests |-> {},
     external_down_requests |-> {}, emergency_requests |-> <<>>,
     paused_internal |-> {}, paused_external_up |-> {},
     paused_external_down |-> {}, store_paused |-> FALSE,
     request_times |-> {},
     normal_requests_served |-> 0, emergency_requests_served |-> 0,
     wait_accumulations |-> 0,
     emergency_mode |-> FALSE,
     current_emergency_pickup |-> NoLeg, current_emergency_destination |-> NoLeg,
     is_paused |-> FALSE]

\* The system after add_internal_request and add_external_request of these floors.
after_normal_submissions(s, internal, up, down) ==
    [s EXCEPT !.internal_requests = internal,
              !.external_up_requests = up,
              !.external_down_requests = down,
              !.request_times =
                  {get_request_key(f, "internal", 0) : f \in internal}
                  \cup {get_request_key(f, "external_up", 0) : f \in up}
                  \cup {get_request_key(f, "external_down", 0) : f \in down}]

\* The system after add_emergency_request of the requests of a list, in its order.
after_emergency_submissions(s, requests) ==
    IF requests = <<>> THEN s
    ELSE [s EXCEPT !.emergency_requests = requests,
                   !.emergency_mode = TRUE,
                   !.store_paused = TRUE,
                   !.request_times =
                       {get_request_key(requests[i][1], "emergency", requests[i][2]) :
                           i \in 1..Len(requests)}]

\* The lists add_emergency_request can build: no request twice.
EmergencyLists(n) ==
    {q \in UNION {[1..k -> (1..n) \X (1..n)] : k \in 0..MaxEmergency} :
        \A i, j \in 1..Len(q) : q[i] = q[j] => i = j}

\* The variables of the engine hold the record s.
Holds(s) ==
    /\ num_floors = s.num_floors
    /\ current_floor = s.current_floor
    /\ direction = s.direction
    /\ door_state = s.door_state
    /\ door_timer = s.door_timer
    /\ target_floor = s.target_floor
    /\ current_passengers = s.current_passengers
    /\ internal_requests = s.internal_requests
    /\ external_up_requests = s.external_up_requests
    /\ external_down_requests = s.external_down_requests
    /\ emergency_requests = s.emergency_requests
    /\ paused_internal = s.paused_internal
    /\ paused_external_up = s.paused_external_up
    /\ paused_external_down = s.paused_external_down
    /\ store_paused = s.store_paused
    /\ request_times = s.request_times
    /\ normal_requests_served = s.normal_requests_served
    /\ emergency_requests_served = s.emergency_requests_served
    /\ wait_accumulations = s.wait_accumulations
    /\ emergency_mode = s.emergency_mode
    /\ current_emergency_pickup = s.current_emergency_pickup
    /\ current_emergency_destination = s.current_emergency_destination
    /\ is_paused = s.is_paused

QueryInit ==
    /\ \E n \in 1..MaxFloors : \E floor \in 1..n, d \in Directions :
          \/ \E internal \in SUBSET (1..n), up \in SUBSET (1..n), down \in SUBSET (1..n) :
                Holds(after_normal_submissions(constructed(n, floor, d), internal, up, down))
          \/ \E requests \in EmergencyLists(n) :
                Holds(after_emergency_submissions(constructed(n, floor, d), requests))
    /\ last_ret = FALSE
    /\ NoHarness
    /\ NoStoreProbe

\* A query: the state it leaves and the value it returns.
Query(name, s, value) ==
    /\ Commit(s)
    /\ last_call' = name
    /\ last_value' = value
    /\ UNCHANGED <<last_ret, harnessVars, store_calls, pre_pause, since_pause>>

CallGetNextTarget ==
    \E system \in {State} : \E r \in get_next_target(system) :
        Query("get_next_target", r.st, [NoValue EXCEPT !.target = r.target])

CallSortEmergencyRequests ==
    \E g \in {sort_emergency_requests(emergency_requests, current_floor, direction)} :
        Query("sort_emergency_requests", State,
              [NoValue EXCEPT !.groups = <<g.group_a, g.group_b, g.group_c>>])

CallGetNextEmergencyTarget ==
    \E r \in {get_next_emergency_target(State, current_floor, direction)} :
        Query("get_next_emergency_target", State,
              [NoValue EXCEPT !.target = r.target, !.is_pickup = r.is_pickup])

QueryNext ==
    \/ CallGetNextTarget
    \/ CallSortEmergencyRequests
    \/ CallGetNextEmergencyTarget

QuerySpec == QueryInit /\ [][QueryNext]_vars

(***************************************************************************)
(* The properties.                                                         *)
(***************************************************************************)
NoSets == <<{}, {}, {}>>

\* C1: after any sequence of submissions and update() ticks the car's floor is
\* within 1..N.
C1_FloorInRange == 1 <= current_floor /\ current_floor <= num_floors

\* The car has travelled to the top floor and served a request there.
C1_Witness ==
    /\ current_floor = num_floors
    /\ door_state = "OPENING"
    /\ normal_requests_served + emergency_requests_served > 0

\* C2: a tick changes the floor only if the door was Closed when it began; while
\* the door is Opening, Open or Closing no tick changes the floor.
C2_MovesOnlyWithDoorClosed ==
    [][current_floor' # current_floor => door_state = "CLOSED"]_vars

\* The door is open while the car has a target elsewhere.
C2_Witness ==
    /\ door_state = "OPEN"
    /\ target_floor # NoFloor
    /\ target_floor # current_floor

\* C3: between calls, emergency mode is on exactly when the emergency list is
\* non-empty or an in-progress pickup or destination leg is recorded.
C3_EmergencyModeIffWork ==
    emergency_mode <=> (\/ emergency_requests # <<>>
                        \/ current_emergency_pickup # NoLeg
                        \/ current_emergency_destination # NoLeg)

\* Emergency mode has ended after a completed emergency request.
C3_Witness ==
    /\ ~emergency_mode
    /\ emergency_requests_served > 0
    /\ emergency_requests = <<>>

\* C4: with update() called again and again, emergency mode, once on, ends
\* with every emergency request removed from the list.
C4_EmergencyModeEnds ==
    emergency_mode ~> (~emergency_mode /\ emergency_requests = <<>>)

\* C5: in the pre-emption scenario the arrivals reported by updates called in
\* emergency mode are at floors 4, 10, 2, 1 in that order, and emergency mode is
\* off when the tick arriving at floor 1 ends.
C5_PreemptionOrder ==
    scenario = "preempt" =>
        /\ Len(arrival_log) <= 4
        /\ arrival_log = SubSeq(<<4, 10, 2, 1>>, 1, Len(arrival_log))
        /\ (Len(arrival_log) = 4 => ~emergency_mode)
        /\ (script_pc = 4 /\ Len(arrival_log) < 4 => emergency_mode)
        /\ (~running => arrival_log = <<4, 10, 2, 1>>)

\* The fourth emergency arrival has been reported, at floor 1.
C5_Witness ==
    /\ scenario = "preempt"
    /\ arrival_log = <<4, 10, 2, 1>>
    /\ current_floor = 1

C7_BasicPickupAfterOneTick ==
    (scenario = "basic" /\ step_count = 1) =>
        /\ current_floor = 4
        /\ door_state = "OPENING"
        /\ 4 \notin external_up_requests
        /\ normal_requests_served = 1

\* C7, amended: that state is reached after exactly two ticks, the first moving
\* the car to floor 4 and the second reporting the arrival.
C7_BasicPickupAfterTwoTicks ==
    (scenario = "basic" /\ step_count = 2) =>
        /\ current_floor = 4
        /\ door_state = "OPENING"
        /\ 4 \notin external_up_requests
        /\ normal_requests_served = 1
        /\ last_ret

\* The second tick of the basic pickup scenario has run.
C7_Witness ==
    /\ scenario = "basic"
    /\ step_count = 2
    /\ door_state = "OPENING"

\* C8: with no emergency submitted and update() called again and again, every
\* normal request held in a live set is eventually removed from it.
C8_NormalRequestsServed ==
    \A f \in 1..MaxFloors :
        /\ (f \in internal_requests) ~> (f \notin internal_requests)
        /\ (f \in external_up_requests) ~> (f \notin external_up_requests)
        /\ (f \in external_down_requests) ~> (f \notin external_down_requests)

\* C9: pause_normal_requests followed by resume_normal_requests with no
\* submission in between leaves the three live sets as they were before the
\* pause, and the paused storage empty.
C9_PauseResumeRoundTrip ==
    since_pause = "round_trip" =>
        /\ LiveSets(State) = pre_pause
        /\ PausedSets(State) = NoSets
        /\ ~store_paused

\* A round trip that saved and restored at least one request.
C9_Witness ==
    /\ since_pause = "round_trip"
    /\ pre_pause # NoSets
    /\ LiveSets(State) # NoSets

\* C10: an emergency request accepted in normal mode turns emergency mode on,
\* empties the three live normal sets and leaves their contents in the paused
\* storage; the live sets stay empty while emergency mode is on.
C10_EmergencyPausesNormal ==
    /\ [][(~emergency_mode /\ Len(emergency_requests') > Len(emergency_requests)) =>
            (/\ emergency_mode'
             /\ LiveSets(State)' = NoSets
             /\ PausedSets(State)' = LiveSets(State))]_vars
    /\ [](emergency_mode => LiveSets(State) = NoSets)

\* Emergency mode is on with a normal request held in the paused storage.
C10_Witness ==
    /\ emergency_mode
    /\ has_paused_requests(State)
    /\ ~has_normal_requests(State)

\* C11: while emergency mode is on, add_internal_request and
\* add_external_request return False and change nothing of the engine.
C11_NormalRejectedInEmergency ==
    [][(/\ emergency_mode
        /\ last_call' \in {"add_internal_request", "add_external_request"})
          => (~last_ret' /\ UNCHANGED engineVars)]_vars

\* A normal submission has just been rejected in emergency mode, with normal
\* requests held in the paused storage.
C11_Witness ==
    /\ emergency_mode
    /\ last_call \in {"add_internal_request", "add_external_request"}
    /\ ~last_ret
    /\ has_paused_requests(State)

\* C12: a submission with a floor outside 1..N returns False and changes
\* nothing of the engine; an emergency submission with either floor out of
\* range neither turns emergency mode on nor pauses the normal sets.
C12_OutOfRangeRejected ==
    [][\/ ~last_ret' /\ UNCHANGED engineVars
       \/ \A f \in FloorInputs \ (1..num_floors) :
             ~(\/ /\ last_call' = "add_internal_request"
                  /\ CallAddInternalRequest(f)
               \/ /\ last_call' = "add_external_request"
                  /\ \E d \in {"UP", "DOWN"} : CallAddExternalRequest(f, d)
               \/ /\ last_call' = "add_emergency_request"
                  /\ \E g \in FloorInputs :
                        CallAddEmergencyRequest(f, g) \/ CallAddEmergencyRequest(g, f))]_vars

\* An emergency submission has just been rejected in normal mode, the normal
\* requests still live.
C12_Witness ==
    /\ last_call = "add_emergency_request"
    /\ ~last_ret
    /\ ~emergency_mode
    /\ ~store_paused
    /\ has_normal_requests(State)

\* C13: submitting a normal request already in its live set, or an emergency
\* pair already in the emergency list, returns True and changes nothing of the
\* engine; the emergency list never holds a pair twice.
C13_DuplicateIsNoOp ==
    /\ [][\/ last_ret' /\ UNCHANGED engineVars
          \/ \A f \in 1..MaxFloors, g \in 1..MaxFloors :
                ~(\/ f \in internal_requests /\ CallAddInternalRequest(f)
                  \/ f \in external_up_requests /\ CallAddExternalRequest(f, "UP")
                  \/ f \in external_down_requests /\ CallAddExternalRequest(f, "DOWN")
                  \/ /\ IsMember(<<f, g>>, emergency_requests)
                     /\ CallAddEmergencyRequest(f, g))]_vars
    /\ [](\A i, j \in 1..Len(emergency_requests) :
             emergency_requests[i] = emergency_requests[j] => i = j)

\* An emergency request whose drop-off leg is in progress has just been
\* submitted again: the list still holds it once.
C13_Witness ==
    /\ last_call = "add_emergency_request"
    /\ last_ret
    /\ current_emergency_destination # NoLeg
    /\ emergency_requests = <<current_emergency_destination>>

\* C19: the door state changes only from Closed to Opening (by open_doors),
\* Opening to Open, Open to Closing and Closing to Closed; open_doors called
\* with the door not Closed and close_doors called with it not Open change
\* neither the door state nor the door timer.
C19_DoorTransitions ==
    /\ [][door_state' # door_state =>
             (\/ /\ door_state = "CLOSED"
                 /\ door_state' = "OPENING"
                 /\ last_call' = "open_doors"
              \/ door_state = "OPENING" /\ door_state' = "OPEN"
              \/ door_state = "OPEN" /\ door_state' = "CLOSING"
              \/ door_state = "CLOSING" /\ door_state' = "CLOSED")]_vars
    /\ [][((last_call' = "open_doors" /\ door_state # "CLOSED")
             \/ (last_call' = "close_doors" /\ door_state # "OPEN"))
              => UNCHANGED <<door_state, door_timer>>]_vars

\* open_doors has just been called with the door Open, its timer running.
C19_Witness ==
    /\ last_call = "open_doors"
    /\ door_state = "OPEN"
    /\ door_timer = door_open_duration

\* C14: the passenger count stays within 0..max_capacity; add_passenger
\* called with the car full returns False and leaves the count as it is, and a
\* tick that arrives with the car full does not raise the count.
C14_PassengersWithinCapacity ==
    /\ [](0 <= current_passengers /\ current_passengers <= max_capacity)
    /\ [][(last_call' = "add_passenger" /\ current_passengers = max_capacity)
             => (~last_ret' /\ current_passengers' = current_passengers)]_vars
    /\ [][(last_call' = "update" /\ current_passengers = max_capacity)
             => current_passengers' <= max_capacity]_vars

\* add_passenger has just been refused, the car full after a pickup made by an
\* arrival.
C14_Witness ==
    /\ last_call = "add_passenger"
    /\ ~last_ret
    /\ current_passengers = max_capacity
    /\ normal_requests_served + emergency_requests_served > 0

\* C15: in normal mode with direction Idle the target update() picks is a
\* pending internal floor of least distance to the car if there is an internal
\* request, otherwise a pending external floor (up or down) of least distance;
\* a floor at distance 0 leaves the car without a target.
C15_IdleTargetIsNearest ==
    [][(/\ last_call' = "update"
        /\ direction = "IDLE"
        /\ target_floor = NoFloor
        /\ ~emergency_mode
        /\ has_normal_requests(State))
          => LET pending == IF internal_requests # {}
                            THEN internal_requests
                            ELSE external_up_requests \cup external_down_requests
             IN  IF current_floor \in pending
                 THEN target_floor' = NoFloor
                 ELSE /\ target_floor' \in pending
                      /\ \A g \in pending :
                            Abs(target_floor' - current_floor) <= Abs(g - current_floor)]_vars

\* The idle dispatch scenario: external requests at 2 and 9 pending, the car one
\* tick below floor 5 on its way to floor 2.
C15_Witness ==
    /\ last_call = "update"
    /\ external_up_requests \cup external_down_requests = {2, 9}
    /\ internal_requests = {}
    /\ normal_requests_served = 0
    /\ current_floor = 4
    /\ target_floor = 2

\* C16: while the engine is paused update() returns False and changes nothing
\* of the engine; pause, resume and toggle_pause change the pause flag only, so
\* that ticking resumes from the state held at the pause and the submissions
\* made since.
C16_PausedUpdateIsNoOp ==
    /\ [][(is_paused /\ last_call' = "update")
             => (~last_ret' /\ UNCHANGED engineVars)]_vars
    /\ [][last_call' \in {"pause", "resume", "toggle_pause"}
             => [State EXCEPT !.is_paused = FALSE]' = [State EXCEPT !.is_paused = FALSE]]_vars
    /\ [][last_call' = "pause" => is_paused']_vars
    /\ [][last_call' = "resume" => ~is_paused']_vars
    /\ [][last_call' = "toggle_pause" => (is_paused' = ~is_paused /\ last_ret' = is_paused')]_vars

\* update() has just been called on a paused engine whose car has a target
\* elsewhere and the door Closed: it did not move.
C16_Witness ==
    /\ is_paused
    /\ last_call = "update"
    /\ ~last_ret
    /\ door_state = "CLOSED"
    /\ target_floor # NoFloor
    /\ target_floor # current_floor

\* The normal requests held, live or paused, by kind.
HeldSets(s) ==
    <<s.internal_requests \cup s.paused_internal,
      s.external_up_requests \cup s.paused_external_up,
      s.external_down_requests \cup s.paused_external_down>>

C18_DoorOpensOnlyOnService ==
    [][(door_state = "CLOSED" /\ door_state' # "CLOSED")
          => /\ last_ret'
             /\ door_state' = "OPENING"
             /\ current_floor' = current_floor
             /\ \/ HeldSets(State)' # HeldSets(State)
                \/ Len(emergency_requests') < Len(emergency_requests)
                \/ /\ current_emergency_pickup # NoLeg
                   /\ current_emergency_pickup[1] = current_floor
                   /\ current_emergency_destination' = current_emergency_pickup]_vars

\* An arrival in emergency mode has just served nothing (the car reached the
\* drop-off floor of a request it has not picked up): the door is still Closed.
C18_Witness ==
    /\ last_ret
    /\ door_state = "CLOSED"
    /\ emergency_mode
    /\ emergency_requests_served = 0
    /\ current_emergency_destination = NoLeg
    /\ current_emergency_pickup # NoLeg
    /\ current_emergency_pickup[2] = current_floor

\* C20: the door starts a cycle only in an arrival tick, as Opening; each of
\* the next four update() ticks leaves the car at its floor and ends with the
\* door Open, Open (the hold of two ticks), Closing and Closed; no other
\* operation moves the door or the car; the door always returns to Closed.
C20_DoorCycle ==
    /\ [][(last_call' = "update" /\ door_state # "CLOSED")
             => (/\ current_floor' = current_floor
                 /\ ~last_ret'
                 /\ ((door_state = "OPENING" /\ door_state' = "OPEN" /\ door_timer' = 2)
                      \/ (door_state = "OPEN" /\ door_timer = 2
                             /\ door_state' = "OPEN" /\ door_timer' = 1)
                      \/ (door_state = "OPEN" /\ door_timer = 1 /\ door_state' = "CLOSING")
                      \/ (door_state = "CLOSING" /\ door_state' = "CLOSED")))]_vars
    /\ [][(door_state = "CLOSED" /\ door_state' # "CLOSED")
             => (last_call' = "update" /\ last_ret' /\ door_state' = "OPENING"
                 /\ current_floor' = current_floor)]_vars
    /\ [][last_call' # "update" => UNCHANGED <<door_state, door_timer, current_floor>>]_vars
    /\ ((door_state # "CLOSED") ~> (door_state = "CLOSED"))

\* The third tick after an arrival that opened the doors: the door is Closing
\* and the car is still at the floor it served.
C20_Witness ==
    /\ last_call = "update"
    /\ door_state = "CLOSING"
    /\ normal_requests_served + emergency_requests_served > 0
    /\ target_floor # NoFloor

\* C21: going up in normal mode with an internal request above the car, the
\* next target is the lowest internal floor above it, whatever calls are
\* pending and however near they are.
C21_InternalAheadFirst ==
    [][(/\ last_call' = "get_next_target"
        /\ ~emergency_mode
        /\ direction = "UP"
        /\ \E f \in internal_requests : f > current_floor)
          => (/\ last_value'.target \in internal_requests
              /\ last_value'.target > current_floor
              /\ \A f \in internal_requests :
                    f > current_floor => last_value'.target <= f)]_vars

\* From floor 1 going up, the internal request of floor 3 has been chosen over
\* the up call of floor 2.
C21_Witness ==
    /\ last_call = "get_next_target"
    /\ ~emergency_mode
    /\ direction = "UP"
    /\ current_floor = 1
    /\ internal_requests = {3}
    /\ 2 \in external_up_requests
    /\ last_value.target = 3

\* C22 as stated: going up in normal mode with internal requests pending and
\* none above the car, the next target is the internal floor farthest below the
\* car.
C22_ReversalToFarthestInternal ==
    [][(/\ last_call' = "get_next_target"
        /\ ~emergency_mode
        /\ direction = "UP"
        /\ internal_requests # {}
        /\ \A f \in internal_requests : f <= current_floor)
          => (/\ last_value'.target \in internal_requests
              /\ last_value'.target < current_floor
              /\ \A f \in internal_requests : last_value'.target <= f)]_vars

\* C22 as the code has it: in that situation the next target is the highest
\* pending internal floor, the one nearest to the car.
C22_ReversalToHighestInternal ==
    [][(/\ last_call' = "get_next_target"
        /\ ~emergency_mode
        /\ direction = "UP"
        /\ internal_requests # {}
        /\ \A f \in internal_requests : f <= current_floor)
          => (/\ last_value'.target \in internal_requests
              /\ \A f \in internal_requests : f <= last_value'.target)]_vars

\* From floor 3 going up with internal requests at 1 and 2, floor 2 was chosen.
C22_Witness ==
    /\ last_call = "get_next_target"
    /\ ~emergency_mode
    /\ direction = "UP"
    /\ current_floor = 3
    /\ internal_requests = {1, 2}
    /\ last_value.target = 2

\* C23 as stated: going up in normal mode with no internal request, the next
\* target is the nearest up call above the car if there is one; otherwise, if a
\* down call is pending, the down call farthest from the car.
C23_UpCallAheadElseFarthestDownCall ==
    [][(/\ last_call' = "get_next_target"
        /\ ~emergency_mode
        /\ direction = "UP"
        /\ internal_requests = {})
          => IF \E f \in external_up_requests : f > current_floor
             THEN /\ last_value'.target \in external_up_requests
                  /\ last_value'.target > current_floor
                  /\ \A f \in external_up_requests :
                        f > current_floor => last_value'.target <= f
             ELSE external_down_requests # {}
                  => /\ last_value'.target \in external_down_requests
                     /\ \A f \in external_down_requests :
                           Abs(f - current_floor)
                               <= Abs(last_value'.target - current_floor)]_vars

\* C23 as the code has it: otherwise, if a down call is pending, the highest
\* down call.
C23_UpCallAheadElseHighestDownCall ==
    [][(/\ last_call' = "get_next_target"
        /\ ~emergency_mode
        /\ direction = "UP"
        /\ internal_requests = {})
          => IF \E f \in external_up_requests : f > current_floor
             THEN /\ last_value'.target \in external_up_requests
                  /\ last_value'.target > current_floor
                  /\ \A f \in external_up_requests :
                        f > current_floor => last_value'.target <= f
             ELSE external_down_requests # {}
                  => /\ last_value'.target \in external_down_requests
                     /\ \A f \in external_down_requests :
                           f <= last_value'.target]_vars

\* From floor 3 going up with down calls at 1 and 2 and an up call behind the
\* car, floor 2 was chosen.
C23_Witness ==
    /\ last_call = "get_next_target"
    /\ ~emergency_mode
    /\ direction = "UP"
    /\ current_floor = 3
    /\ internal_requests = {}
    /\ external_up_requests = {1}
    /\ external_down_requests = {1, 2}
    /\ last_value.target = 2

\* The reflection of the shaft: floor f becomes N + 1 - f, no floor stays no floor.
Mirror(f) == IF f = NoFloor THEN NoFloor ELSE num_floors + 1 - f

MirrorSet(floors) == {Mirror(f) : f \in floors}

MirrorDirection(d) == IF d = "UP" THEN "DOWN" ELSE "UP"

\* C24: in normal mode the target chosen going down (up) is the reflection of
\* the target chosen going up (down) in the reflected situation: every floor f
\* taken to N + 1 - f and the up calls exchanged with the down calls.
C24_DownMirrorsUp ==
    [][(/\ last_call' = "get_next_target"
        /\ ~emergency_mode
        /\ direction \in {"UP", "DOWN"})
          => get_next_normal_target(Mirror(current_floor), MirrorDirection(direction),
                                    MirrorSet(internal_requests),
                                    MirrorSet(external_down_requests),
                                    MirrorSet(external_up_requests))
                = {Mirror(last_value'.target)}]_vars

\* Going down from floor 2 of 3 with nothing below, the up calls at 1 and 3
\* gave floor 1: the reflection of going up from 2, down calls at 3 and 1,
\* which gives 3.
C24_Witness ==
    /\ last_call = "get_next_target"
    /\ ~emergency_mode
    /\ direction = "DOWN"
    /\ num_floors = 3
    /\ current_floor = 2
    /\ internal_requests = {}
    /\ external_down_requests = {3}
    /\ external_up_requests = {1, 3}
    /\ last_value.target = 1

\* r is an element of the list.
InList(r, list) == \E i \in 1..Len(list) : list[i] = r

\* The request r = (pickup, destination) lies ahead of a car at cf going d.
LiesAhead(r, cf, d) ==
    IF d = "DOWN"
    THEN r[1] < cf \/ (r[1] = cf /\ r[2] < cf)
    ELSE r[1] > cf \/ (r[1] = cf /\ r[2] > cf)

\* C25: for a car going up or down, sort_emergency_requests puts a request in
\* Group A iff its pickup floor is strictly ahead of the car, or is the car's
\* floor with the destination strictly ahead; every other request is in
\* Group B.
C25_GroupAIffAhead ==
    [][(last_call' = "sort_emergency_requests" /\ direction \in {"UP", "DOWN"})
          => \A i \in 1..Len(emergency_requests) :
                IF LiesAhead(emergency_requests[i], current_floor, direction)
                THEN /\ InList(emergency_requests[i], last_value'.groups[1])
                     /\ ~InList(emergency_requests[i], last_value'.groups[2])
                ELSE /\ InList(emergency_requests[i], last_value'.groups[2])
                     /\ ~InList(emergency_requests[i], last_value'.groups[1])]_vars

\* At floor 2 going up, the request 2 -> 3 was put in Group A and the request
\* 2 -> 1 in Group B.
C25_Witness ==
    /\ last_call = "sort_emergency_requests"
    /\ direction = "UP"
    /\ current_floor = 2
    /\ emergency_requests = <<<<2, 1>>, <<2, 3>>>>
    /\ last_value.groups[1] = <<<<2, 3>>>>
    /\ last_value.groups[2] = <<<<2, 1>>>>

\* Within its group, r does not come after q: Group A by pickup floor ascending
\* going up, descending going down; Group B the other way round; both nearest
\* pickup first for an idle car.
NotAfter(r, q, cf, d, ahead) ==
    CASE d = "UP" -> IF ahead THEN r[1] <= q[1] ELSE r[1] >= q[1]
      [] d = "DOWN" -> IF ahead THEN r[1] >= q[1] ELSE r[1] <= q[1]
      [] OTHER -> Abs(r[1] - cf) <= Abs(q[1] - cf)

\* The leg (target, is_pickup) is the one of request r for a car at cf.
LegOf(leg, r, cf) ==
    IF cf = r[1]
    THEN leg.target = r[2] /\ ~leg.is_pickup
    ELSE leg.target = r[1] /\ leg.is_pickup

\* C26: get_next_emergency_target returns no target iff the emergency list is
\* empty; otherwise its leg is the one of a request of Group A if that group is
\* not empty, else of Group B, which no request of the group precedes in the
\* group's order: the destination as a drop-off leg if the car is at the pickup
\* floor, else the pickup floor as a pickup leg.
C26_NextEmergencyTarget ==
    [][last_call' = "get_next_emergency_target"
          => /\ (last_value'.target = NoFloor) <=> (emergency_requests = <<>>)
             /\ emergency_requests = <<>> => ~last_value'.is_pickup
             /\ emergency_requests # <<>>
                   => \E i \in 1..Len(emergency_requests) :
                        /\ \/ LiesAhead(emergency_requests[i], current_floor, direction)
                           \/ \A j \in 1..Len(emergency_requests) :
                                 ~LiesAhead(emergency_requests[j], current_floor, direction)
                        /\ \A j \in 1..Len(emergency_requests) :
                              (LiesAhead(emergency_requests[j], current_floor, direction)
                                 = LiesAhead(emergency_requests[i], current_floor, direction))
                              => NotAfter(emergency_requests[i], emergency_requests[j],
                                          current_floor, direction,
                                          LiesAhead(emergency_requests[i],
                                                    current_floor, direction))
                        /\ LegOf(last_value', emergency_requests[i], current_floor)]_vars

\* At floor 2 going up with the requests 1 -> 2 and 2 -> 3, the request 2 -> 3
\* of Group A was chosen and, the car being at its pickup floor, the leg is the
\* drop-off leg to floor 3.
C26_Witness ==
    /\ last_call = "get_next_emergency_target"
    /\ direction = "UP"
    /\ current_floor = 2
    /\ emergency_requests = <<<<1, 2>>, <<2, 3>>>>
    /\ last_value.target = 3
    /\ ~last_value.is_pickup

\* C27: an emergency submission changes neither the recorded pickup or
\* destination leg nor the target; a recorded leg changes, and the target of a
\* car with a recorded leg changes, only in the tick that reports the arrival
\* at the leg's floor; until then the target is the leg's floor.
C27_LegCommitted ==
    /\ [][last_call' = "add_emergency_request"
             => UNCHANGED <<current_emergency_pickup, current_emergency_destination,
                            target_floor>>]_vars
    /\ [][(current_emergency_pickup # NoLeg
              /\ (current_emergency_pickup' # current_emergency_pickup
                     \/ target_floor' # target_floor))
             => (last_call' = "update" /\ last_ret'
                   /\ current_floor' = current_emergency_pickup[1])]_vars
    /\ [][(current_emergency_destination # NoLeg
              /\ (current_emergency_destination' # current_emergency_destination
                     \/ target_floor' # target_floor))
             => (last_call' = "update" /\ last_ret'
                   /\ current_floor' = current_emergency_destination[2])]_vars
    /\ [](current_emergency_pickup # NoLeg
             => target_floor = current_emergency_pickup[1])
    /\ [](current_emergency_destination # NoLeg
             => target_floor = current_emergency_destination[2])

\* The car, at floor 1 going up, is on its way to the pickup of 3 -> 1 when the
\* request 2 -> 3, which the scheduler would put first, is accepted: the leg
\* and the target stay.
C27_Witness ==
    /\ last_call = "add_emergency_request"
    /\ last_ret
    /\ direction = "UP"
    /\ current_floor = 1
    /\ emergency_requests = <<<<3, 1>>, <<2, 3>>>>
    /\ current_emergency_pickup = <<3, 1>>
    /\ target_floor = 3

\* C28: a submission of any kind leaves the car's floor, direction, door state
\* and target as they are; a target that is set changes only in the tick that
\* reports the arrival at it, also when an emergency is submitted on the way.
C28_SubmissionsDoNotDivert ==
    /\ [][last_call' \in {"add_internal_request", "add_external_request",
                           "add_emergency_request"}
             => UNCHANGED <<current_floor, direction, door_state, target_floor>>]_vars
    /\ [][(target_floor # NoFloor /\ target_floor' # target_floor)
             => (last_call' = "update" /\ last_ret'
                   /\ current_floor = target_floor
                   /\ current_floor' = target_floor)]_vars

\* On the way from floor 1 to the internal request of floor 3, at floor 2, the
\* emergency 1 -> 2 was accepted: the target is still 3.
C28_Witness ==
    /\ last_call = "add_emergency_request"
    /\ last_ret
    /\ current_floor = 2
    /\ direction = "UP"
    /\ target_floor = 3
    /\ paused_internal = {3}
    /\ emergency_requests = <<<<1, 2>>>>

\* A store call that returned a zero wait and changed no set, no served
\* counter and not the accumulated wait.
RemovedNothing ==
    /\ ~last_ret'
    /\ UNCHANGED <<internal_requests, external_up_requests, external_down_requests,
                   emergency_requests, paused_internal, paused_external_up,
                   paused_external_down, normal_requests_served,
                   emergency_requests_served, wait_accumulations>>

\* C29: at the store, removing an entry that is not in the corresponding live
\* set is a no-op in every state of the store, also after
\* pause_normal_requests: the sets, the served counters and the accumulated
\* wait stay and the returned wait is zero.
C29_RemovingAbsentIsNoOp ==
    /\ [][\A floor \in FloorInputs :
             (floor \notin internal_requests /\ StoreRemoveInternal(floor))
                => RemovedNothing]_vars
    /\ [][\A floor \in FloorInputs :
             (floor \notin external_up_requests /\ StoreRemoveExternal(floor, "UP"))
                => RemovedNothing]_vars
    /\ [][\A floor \in FloorInputs :
             (floor \notin external_down_requests /\ StoreRemoveExternal(floor, "DOWN"))
                => RemovedNothing]_vars
    /\ [][\A from_floor \in FloorInputs, to_floor \in FloorInputs :
             (~IsMember(<<from_floor, to_floor>>, emergency_requests)
                /\ StoreRemoveEmergency(from_floor, to_floor))
                => RemovedNothing]_vars

\* C30: at the store, removing a floor that is in a live normal set takes it
\* out of the set and adds exactly one to normal_requests_served, whatever
\* path put the floor there.
C30_RemovingLiveCountsOne ==
    /\ [][\A floor \in FloorInputs :
             (floor \in internal_requests /\ StoreRemoveInternal(floor))
                => (/\ floor \notin internal_requests'
                    /\ normal_requests_served' = normal_requests_served + 1)]_vars
    /\ [][\A floor \in FloorInputs :
             (floor \in external_up_requests /\ StoreRemoveExternal(floor, "UP"))
                => (/\ floor \notin external_up_requests'
                    /\ normal_requests_served' = normal_requests_served + 1)]_vars
    /\ [][\A floor \in FloorInputs :
             (floor \in external_down_requests /\ StoreRemoveExternal(floor, "DOWN"))
                => (/\ floor \notin external_down_requests'
                    /\ normal_requests_served' = normal_requests_served + 1)]_vars

\* C31: an emergency request leaves the emergency list only in a tick that
\* reports an arrival at the request's destination floor, with the request
\* recorded as the destination leg or turned into it in that same tick; a
\* destination leg is recorded only in a tick that reports an arrival at the
\* pickup floor of the request then recorded as the pickup leg, and it is that
\* same request; so a drop-off never precedes its pickup.
C31_DropOffAfterPickup ==
    /\ [][\A i \in 1..Len(emergency_requests) :
             ~IsMember(emergency_requests[i], emergency_requests')
                => (/\ last_call' = "update"
                    /\ last_ret'
                    /\ current_floor' = emergency_requests[i][2]
                    /\ \/ current_emergency_destination = emergency_requests[i]
                       \/ /\ current_emergency_pickup = emergency_requests[i]
                          /\ current_floor' = emergency_requests[i][1])]_vars
    /\ [][(current_emergency_destination' # NoLeg
              /\ current_emergency_destination' # current_emergency_destination)
             => (/\ last_call' = "update"
                 /\ last_ret'
                 /\ current_emergency_pickup = current_emergency_destination'
                 /\ current_floor' = current_emergency_pickup[1]
                 /\ current_emergency_pickup' = NoLeg)]_vars
    /\ [](current_emergency_destination # NoLeg
             => IsMember(current_emergency_destination, emergency_requests))

\* The car picked the request 2 -> 3 up at floor 2 and has now arrived at
\* floor 3: the request left the list and was counted.
C31_Witness ==
    /\ last_call = "update"
    /\ last_ret
    /\ current_floor = 3
    /\ emergency_requests = <<>>
    /\ emergency_requests_served = 1
    /\ current_emergency_destination = NoLeg
    /\ ~emergency_mode

\* C32: through the engine's public operations the store's paused flag equals
\* the emergency-mode flag; outside emergency mode the three paused sets are
\* empty; and the store never inserts into a paused set: a normal submission
\* is accepted only while the store is not paused and leaves the paused sets
\* as they are.
C32_StorePausedIffEmergencyMode ==
    /\ [](store_paused = emergency_mode)
    /\ [](~emergency_mode => PausedSets(State) = NoSets)
    /\ [][(last_call' \in {"add_internal_request", "add_external_request"} /\ last_ret')
             => (/\ ~store_paused
                 /\ ~store_paused'
                 /\ UNCHANGED <<paused_internal, paused_external_up,
                                paused_external_down>>)]_vars

\* An internal request for floor 3 is submitted in emergency mode, with the
\* store paused and holding the external call of floor 2: it is refused and
\* the paused sets stay.
C32_Witness ==
    /\ last_call = "add_internal_request"
    /\ ~last_ret
    /\ emergency_mode
    /\ store_paused
    /\ paused_external_up = {2}
    /\ paused_internal = {}
    /\ internal_requests = {}

\* C33: for every floor, direction (Up, Down, Idle) and emergency list,
\* sort_emergency_requests puts each request of the list in exactly one of
\* Group A and Group B, leaves Group C empty, and the groups hold the
\* requests of the list and nothing else.
C33_GroupsPartitionTheList ==
    [][last_call' = "sort_emergency_requests"
          => /\ last_value'.groups[3] = <<>>
             /\ \A i \in 1..Len(emergency_requests) :
                   InList(emergency_requests[i], last_value'.groups[1])
                      # InList(emergency_requests[i], last_value'.groups[2])
             /\ \A g \in 1..3 : \A i \in 1..Len(last_value'.groups[g]) :
                   InList(last_value'.groups[g][i], emergency_requests)
             /\ Len(last_value'.groups[1]) + Len(last_value'.groups[2])
                   + Len(last_value'.groups[3]) = Len(emergency_requests)]_vars

\* An idle car at floor 2 with the requests 2 -> 2 and 3 -> 1: the first went
\* to Group B, the second to Group A, none to Group C.
C33_Witness ==
    /\ last_call = "sort_emergency_requests"
    /\ direction = "IDLE"
    /\ current_floor = 2
    /\ emergency_requests = <<<<2, 2>>, <<3, 1>>>>
    /\ last_value.groups = <<<<<<3, 1>>>>, <<<<2, 2>>>>, <<>>>>

\* C34: between operations a target that is set lies in 1..N, the direction
\* is Up when it is above the car and Down when it is below, and the door is
\* closed when the car stands at it; a tick that moves the car brings it
\* exactly one floor nearer to the target, so the car never passes it; and an
\* update() reports an arrival exactly when it is called, unpaused, with the
\* car already at its target: in the tick after the one that reached the floor.
C34_TargetAhead ==
    /\ [](target_floor # NoFloor
             => /\ 1 <= target_floor /\ target_floor <= num_floors
                /\ target_floor > current_floor => direction = "UP"
                /\ target_floor < current_floor => direction = "DOWN"
                /\ target_floor = current_floor => door_state = "CLOSED")
    /\ [][current_floor' # current_floor
             => (/\ last_call' = "update"
                 /\ ~last_ret'
                 /\ target_floor' # NoFloor
                 /\ target_floor \in {NoFloor, target_floor'}
                 /\ Abs(target_floor' - current_floor')
                       = Abs(target_floor' - current_floor) - 1)]_vars
    /\ [][last_call' = "update"
             => (last_ret' <=> (/\ ~is_paused
                                /\ target_floor # NoFloor
                                /\ current_floor = target_floor))]_vars

\* The car has just reached floor 3, its target, going up: the tick that
\* brought it there reported no arrival.
C34_Witness ==
    /\ last_call = "update"
    /\ ~last_ret
    /\ target_floor = 3
    /\ current_floor = 3
    /\ direction = "UP"
    /\ internal_requests = {3}

\* C35: between operations the pickup leg and the destination leg are never
\* both recorded; a recorded leg is a request of the emergency list; and the
\* car's target is the leg's floor: the pickup floor of a pickup leg, the
\* destination floor of a destination leg.
C35_OneLegInProgress ==
    /\ ~(current_emergency_pickup # NoLeg /\ current_emergency_destination # NoLeg)
    /\ current_emergency_pickup # NoLeg
          => /\ IsMember(current_emergency_pickup, emergency_requests)
             /\ target_floor = current_emergency_pickup[1]
    /\ current_emergency_destination # NoLeg
          => /\ IsMember(current_emergency_destination, emergency_requests)
             /\ target_floor = current_emergency_destination[2]

\* The car arrived at floor 2 for the pickup of 2 -> 3 while 1 -> 2 waits: the
\* pickup leg became the destination leg and the target is floor 3.
C35_Witness ==
    /\ last_call = "update"
    /\ last_ret
    /\ current_floor = 2
    /\ emergency_requests = <<<<2, 3>>, <<1, 2>>>>
    /\ current_emergency_pickup = NoLeg
    /\ current_emergency_destination = <<2, 3>>
    /\ target_floor = 3

\* C36: emergency_requests_served counts the requests that left the emergency
\* list: it starts at zero with an empty list, and every step adds to it the
\* number of requests the step removed from the list, which is one for a
\* completion at a destination although the store's removal is called twice
\* for the pair, and zero for every other step.
C36_ServedCountsRemovals ==
    /\ [][emergency_requests_served' = emergency_requests_served
             + Cardinality({i \in 1..Len(emergency_requests) :
                               ~IsMember(emergency_requests[i], emergency_requests')})]_vars
    /\ [][emergency_requests_served' \in {emergency_requests_served,
                                          emergency_requests_served + 1}]_vars

\* The second of two emergency requests has just been completed at floor 1:
\* two requests left the list and two are counted.
C36_Witness ==
    /\ last_call = "update"
    /\ last_ret
    /\ current_floor = 1
    /\ emergency_requests = <<>>
    /\ emergency_requests_served = 2
    /\ wait_accumulations = 2

\* C37: in normal mode, for every floor of the car and every direction, the
\* target selection returns a floor whenever a normal request is pending: it
\* returns none only when the internal, external-up and external-down sets
\* are all empty.
C37_NoneOnlyWhenNothingPending ==
    [][(last_call' = "get_next_target" /\ ~emergency_mode
           /\ has_normal_requests(State))
          => last_value'.target # NoFloor]_vars

\* The car is on the drop-off leg the scheduler named for the one emergency
\* request, accepted while the car stood without a target at the request's
\* pickup floor: no normal request and no other emergency request was ever
\* accepted, no leg is recorded, and the target is the request's destination.
\* The car has not arrived anywhere since: an arrival records a leg or ends
\* the emergency.
OnDropOffLeg ==
    /\ Len(emergency_requests) = 1
    /\ emergency_requests[1][1] # emergency_requests[1][2]
    /\ emergency_requests_served = 0
    /\ NormalIssued(State) = 0
    /\ current_emergency_pickup = NoLeg
    /\ current_emergency_destination = NoLeg
    /\ target_floor = emergency_requests[1][2]

\* C38: when an emergency request with different pickup and destination floors
\* is accepted while the car stands without a target at the pickup floor, the
\* car's first arrival at the destination floor completes the request: the
\* request leaves the emergency list and is counted as served.
C38_DropOffLegHonoured ==
    [][(OnDropOffLeg /\ last_call' = "update" /\ last_ret'
           /\ current_floor' = emergency_requests[1][2])
          => (/\ emergency_requests' = <<>>
              /\ emergency_requests_served' = 1)]_vars

\* Normal requests held back for the floor f: how many of the three paused
\* sets contain it.
PausedAt(f) ==
    (IF f \in paused_internal THEN 1 ELSE 0)
    + (IF f \in paused_external_up THEN 1 ELSE 0)
    + (IF f \in paused_external_down THEN 1 ELSE 0)

\* C39: the tick that ends emergency mode reports the arrival that completed
\* the last emergency request; in that same tick the paused normal requests
\* are restored and those of the arrival floor are served: the live sets after
\* the tick are the paused sets without the arrival floor, the paused sets are
\* empty, and normal_requests_served has grown by one for each restored
\* request of the arrival floor.
C39_RestoredServedOnArrival ==
    [][(emergency_mode /\ ~emergency_mode')
          => (/\ last_ret'
              /\ emergency_requests' = <<>>
              /\ emergency_requests_served' = emergency_requests_served + 1
              /\ PausedSets(State)' = NoSets
              /\ internal_requests' = paused_internal \ {current_floor'}
              /\ external_up_requests' = paused_external_up \ {current_floor'}
              /\ external_down_requests' = paused_external_down \ {current_floor'}
              /\ normal_requests_served'
                    = normal_requests_served + PausedAt(current_floor'))]_vars

\* The tick reported the arrival at floor 3 that completed the emergency and
\* served the two calls held back for that floor: emergency mode is over, the
\* door is opening, nothing is pending and one passenger is aboard.
C39_Witness ==
    /\ last_ret
    /\ ~emergency_mode
    /\ current_floor = 3
    /\ door_state = "OPENING"
    /\ emergency_requests_served = 1
    /\ normal_requests_served = 2
    /\ LiveSets(State) = NoSets
    /\ PausedSets(State) = NoSets
    /\ current_passengers = 1

====
